---- MODULE Spec2Model ----
(***************************************************************************)
(* Browser OAuth session manager (frontend/src/services/cyberark-auth.js)  *)
(* and the JSON-RPC gateway client (frontend/src/api-gateway.js).          *)
(*                                                                         *)
(* The state is the browser's: localStorage, sessionStorage, the address   *)
(* bar (window.location.href), the clock (Date.now()) and the async calls  *)
(* that are suspended at a network round trip.  One action per handler or  *)
(* per resumption after an await.                                          *)
(***************************************************************************)
EXTENDS Integers, Sequences, FiniteSets, Bags, TLC

(***************************************************************************)
(* Bounds of the model.                                                    *)
(***************************************************************************)
MaxTime == 1000          \* the clock stops advancing here (milliseconds)
TickMs == 1000           \* one clock step (milliseconds)
MaxInFlight == 2         \* async calls suspended at the same time

(***************************************************************************)
(* JavaScript values.  Strings are TLA+ strings; null and undefined are    *)
(* markers outside the alphabet of the strings the program handles; NaN    *)
(* and an undefined number are markers below every number of the model.    *)
(***************************************************************************)
Null == "#null"
Undefined == "#undefined"
NaN == 0 - 1
UndefinedNum == 0 - 2    \* undefined where a number is expected (an absent JSON field)

Truthy(v) == v \notin {Null, Undefined, ""}

\* String(v) as applied by Storage.setItem to its value argument.
JsString(v) == IF v = Undefined THEN "undefined" ELSE IF v = Null THEN "null" ELSE v

\* a * b and a + b on numbers, undefined operands coerced to NaN.
JsMul(a, b) == IF a \in {UndefinedNum, NaN} \/ b \in {UndefinedNum, NaN} THEN NaN ELSE a * b
JsAdd(a, b) == IF a \in {UndefinedNum, NaN} \/ b \in {UndefinedNum, NaN} THEN NaN ELSE a + b
\* a < b on numbers: false when either side is NaN.
JsLt(a, b) == a # NaN /\ b # NaN /\ a < b

DigitChars == <<"0", "1", "2", "3", "4", "5", "6", "7", "8", "9">>
IsDigit(c) == \E d \in 1..10 : DigitChars[d] = c
DigitVal(c) == (CHOOSE d \in 1..10 : DigitChars[d] = c) - 1

\* Number.prototype.toString() on a non-negative integer or NaN.
RECURSIVE NumToString(_)
NumToString(n) ==
    IF n = NaN THEN "NaN"
    ELSE IF n < 10 THEN DigitChars[n + 1]
    ELSE NumToString(n \div 10) \o DigitChars[(n % 10) + 1]

\* parseInt(s): the number written by the leading decimal digits, NaN if none.
RECURSIVE ParsePrefix(_, _, _)
ParsePrefix(s, acc, seen) ==
    IF s = "" \/ ~IsDigit(Head(s))
    THEN (IF seen THEN acc ELSE NaN)
    ELSE ParsePrefix(Tail(s), acc * 10 + DigitVal(Head(s)), TRUE)
ParseInt(s) == ParsePrefix(s, 0, FALSE)

(***************************************************************************)
(* Web Storage.                                                            *)
(***************************************************************************)
LocalKeys == {"cyberark_access_token", "cyberark_token_expiry", "cyberark_refresh_token"}
SessionKeys == {"oauth_state", "pkce_verifier"}

getItem(st, k) == st[k]
setItem(st, k, v) == [st EXCEPT ![k] = JsString(v)]
removeItem(st, k) == [st EXCEPT ![k] = Null]

(***************************************************************************)
(* Inputs.                                                                 *)
(***************************************************************************)
StateVals == {"s1", "s2"}                 \* values generateRandomString returns
Codes == {"c1"}                           \* authorization codes
Tokens == {"T1", "T2"}
RefreshTokens == {"R1"}
ExpiresIn == {0, 2}                       \* seconds

\* window.location.search, as URLSearchParams.get reads it.
Queries ==
    [code : Codes \cup {Null}, state : StateVals \cup {Null},
     error : {Null, "access_denied"}]
NoQuery == [code |-> Null, state |-> Null, error |-> Null]

\* An HTTP response as the handlers read it: the status and the fields of the
\* JSON body (undefined where the body has no such field).  Status 0 stands
\* for "no response" in the history.
responseOk(status) == status \in 200..299
TokenResponses ==
    [status : {200},
     access_token : Tokens,
     refresh_token : RefreshTokens,
     expires_in : ExpiresIn \cup {UndefinedNum}]
    \cup
    [status : {500},
     access_token : {Undefined}, refresh_token : {Undefined}, expires_in : {UndefinedNum}]
GatewayStatuses == {200, 401, 500}
StatusOnly(status) ==
    [status |-> status, access_token |-> Undefined, refresh_token |-> Undefined,
     expires_in |-> UndefinedNum]
NoResp == StatusOnly(0)

(***************************************************************************)
(* Errors, by the message the code throws.                                 *)
(***************************************************************************)
ProviderError == "OAuth error"
MissingCodeError == "No authorization code received"
CsrfError == "Invalid state parameter - possible CSRF attack"
TokenExchangeError == "Token exchange failed"
AuthRequiredError == "Authentication required"
SessionExpiredError == "Session expired, please log in again"
GatewayHttpError == "Gateway error status"
GatewayRpcError == "Gateway error"
FetchFailed == "TypeError: Failed to fetch"
JsonSyntaxError == "SyntaxError"
Pending == "pending"
Ok == "ok"

(***************************************************************************)
(* JSON values, as JSON.parse builds them and as the handlers probe them.  *)
(* A value is a record: t its type, s the text of a scalar, kv the members *)
(* of an object (key and value, in order) or the elements of an array.     *)
(***************************************************************************)
JUndefined == [t |-> "undefined", s |-> "", kv |-> <<>>]
JNull == [t |-> "null", s |-> "null", kv |-> <<>>]
JBool(b) == [t |-> "bool", s |-> IF b THEN "true" ELSE "false", kv |-> <<>>]
JNum(digits) == [t |-> "num", s |-> digits, kv |-> <<>>]
JStr(str) == [t |-> "str", s |-> str, kv |-> <<>>]
JObj(members) == [t |-> "obj", s |-> "", kv |-> members]
JArr(elements) == [t |-> "arr", s |-> "", kv |-> elements]
Member(key, value) == [k |-> key, v |-> value]

\* A value in a condition: false for undefined, null, false, 0 and "".
JsTruthy(value) ==
    CASE value.t \in {"undefined", "null"} -> FALSE
      [] value.t = "bool" -> value.s = "true"
      [] value.t = "num" -> value.s # "0"
      [] value.t = "str" -> value.s # ""
      [] OTHER -> TRUE

\* `key in value`, and value[key] (value.key) on a value that is neither
\* null nor undefined: the last member with that key, undefined if none.
HasKey(value, key) ==
    value.t = "obj" /\ \E i \in 1..Len(value.kv) : value.kv[i].k = key
Get(value, key) ==
    IF HasKey(value, key)
    THEN LET last == CHOOSE i \in 1..Len(value.kv) :
                        /\ value.kv[i].k = key
                        /\ \A j \in (i + 1)..Len(value.kv) : value.kv[j].k # key
         IN  value.kv[last].v
    ELSE JUndefined
\* value[0]
First(value) ==
    IF value.t = "arr" /\ Len(value.kv) > 0 THEN value.kv[1].v ELSE Get(value, "0")
\* value?.key
OptGet(value, key) ==
    IF value.t \in {"undefined", "null"} THEN JUndefined ELSE Get(value, key)

\* JSON.parse(text): a recursive-descent reading of the text.  Each parser
\* returns whether it read a value, the value, and the text left over.
StartsWith(str, prefix) ==
    Len(str) >= Len(prefix) /\ SubSeq(str, 1, Len(prefix)) = prefix
Drop(str, n) == SubSeq(str, n + 1, Len(str))
ParseFailed == [ok |-> FALSE, val |-> JUndefined, rest |-> ""]
Parsed(value, rest) == [ok |-> TRUE, val |-> value, rest |-> rest]

RECURSIVE SkipWs(_)
SkipWs(str) == IF str # "" /\ Head(str) = " " THEN SkipWs(Tail(str)) ELSE str

\* The characters of a string up to its closing quote (escape sequences do
\* not occur in the texts of the model and are not read).
RECURSIVE ScanString(_, _)
ScanString(str, acc) ==
    IF str = "" \/ Head(str) = "\\" THEN ParseFailed
    ELSE IF Head(str) = "\"" THEN Parsed(JStr(acc), Tail(str))
    ELSE ScanString(Tail(str), acc \o Head(str))

\* The digits of an integer: "0", or digits not starting with 0.
RECURSIVE ScanDigits(_, _)
ScanDigits(str, acc) ==
    IF str # "" /\ IsDigit(Head(str)) THEN ScanDigits(Tail(str), acc \o Head(str))
    ELSE IF acc = "" \/ (Len(acc) > 1 /\ Head(acc) = "0") THEN ParseFailed
    ELSE Parsed(JNum(acc), str)

RECURSIVE ParseValue(_), ParseMembers(_, _), ParseElements(_, _)
ParseValue(text) ==
    LET str == SkipWs(text)
    IN  IF str = "" THEN ParseFailed
        ELSE IF StartsWith(str, "null") THEN Parsed(JNull, Drop(str, 4))
        ELSE IF StartsWith(str, "true") THEN Parsed(JBool(TRUE), Drop(str, 4))
        ELSE IF StartsWith(str, "false") THEN Parsed(JBool(FALSE), Drop(str, 5))
        ELSE IF Head(str) = "\"" THEN ScanString(Tail(str), "")
        ELSE IF IsDigit(Head(str)) THEN ScanDigits(str, "")
        ELSE IF Head(str) = "{"
             THEN IF StartsWith(SkipWs(Tail(str)), "}")
                  THEN Parsed(JObj(<<>>), Drop(SkipWs(Tail(str)), 1))
                  ELSE ParseMembers(Tail(str), <<>>)
        ELSE IF Head(str) = "["
             THEN IF StartsWith(SkipWs(Tail(str)), "]")
                  THEN Parsed(JArr(<<>>), Drop(SkipWs(Tail(str)), 1))
                  ELSE ParseElements(Tail(str), <<>>)
        ELSE ParseFailed
ParseMembers(text, acc) ==
    LET str == SkipWs(text)
        key == IF StartsWith(str, "\"") THEN ScanString(Tail(str), "") ELSE ParseFailed
        colon == SkipWs(key.rest)
        value == IF key.ok /\ StartsWith(colon, ":") THEN ParseValue(Tail(colon))
                 ELSE ParseFailed
        after == SkipWs(value.rest)
        members == Append(acc, Member(key.val.s, value.val))
    IN  IF ~value.ok THEN ParseFailed
        ELSE IF StartsWith(after, ",") THEN ParseMembers(Tail(after), members)
        ELSE IF StartsWith(after, "}") THEN Parsed(JObj(members), Tail(after))
        ELSE ParseFailed
ParseElements(text, acc) ==
    LET value == ParseValue(text)
        after == SkipWs(value.rest)
        elements == Append(acc, Member("", value.val))
    IN  IF ~value.ok THEN ParseFailed
        ELSE IF StartsWith(after, ",") THEN ParseElements(Tail(after), elements)
        ELSE IF StartsWith(after, "]") THEN Parsed(JArr(elements), Tail(after))
        ELSE ParseFailed

\* JSON.parse(text): the value, or a SyntaxError (ok = FALSE) when the text
\* is not one JSON value followed by nothing but blanks.
JsonParse(text) ==
    LET read == ParseValue(text)
    IN  IF read.ok /\ SkipWs(read.rest) = "" THEN Parsed(read.val, "") ELSE ParseFailed

VARIABLES
    now,             \* Date.now()
    localStorage,    \* window.localStorage
    sessionStorage,  \* window.sessionStorage
    href,            \* window.location.href, as last assigned
    inflight,        \* bag of async calls suspended at an await
    lastEvent,       \* what the last step did (history)
    grantedBy,       \* the state parameter of the callback that stored the
                     \* access token now in localStorage (history)
    toolResult,      \* the `result` callTool resolved with, in runCouncil / runDxO
    toolReturn,      \* how runCouncil / runDxO settled on it (history)
    gwSent,          \* ids of the JSON-RPC requests sent so far (history)
    gwPending,       \* calls of the gateway client awaiting their response
    gwSettled,       \* how the last call of the gateway client settled (history)
    view,            \* the Callback component: its state and what it has started
    app              \* the App component and its ChatInterface: their state

sessionVars == <<now, localStorage, sessionStorage, href, inflight, lastEvent, grantedBy>>
toolVars == <<toolResult, toolReturn>>
gwVars == <<gwSent, gwPending, gwSettled>>
auxVars == <<toolVars, gwVars, view, app>>
vars == <<now, localStorage, sessionStorage, href, inflight, lastEvent, grantedBy,
          toolResult, toolReturn, gwSent, gwPending, gwSettled, view, app>>

(***************************************************************************)
(* CyberArkAuth (cyberark-auth.js).                                        *)
(***************************************************************************)
MsPerSecond == 1000

getAccessToken(ls) == getItem(ls, "cyberark_access_token")

\* (a variant that still accepts the token at the instant it expires)
isAuthenticated_inclusive(ls, t) ==
    LET token == getAccessToken(ls)
        expiry == getItem(ls, "cyberark_token_expiry")
    IN  IF ~Truthy(token) THEN FALSE
        ELSE IF ~Truthy(expiry) THEN FALSE
        ELSE ~JsLt(ParseInt(expiry), t)
isAuthenticated(ls, t) ==
    LET token == getAccessToken(ls)
        expiry == getItem(ls, "cyberark_token_expiry")
    IN  IF ~Truthy(token) THEN FALSE
        ELSE IF ~Truthy(expiry) THEN FALSE
        ELSE JsLt(t, ParseInt(expiry))

\* (a variant that asks for the implicit flow)
AuthUrl_implicit(state) ==
    [endpoint |-> "authEndpoint", client_id |-> "clientId",
     redirect_uri |-> "origin/callback", response_type |-> "token",
     scope |-> "openid profile email", state |-> state]

\* The authorization URL login() assigns to window.location.href.
AuthUrl(state) ==
    [endpoint |-> "authEndpoint", client_id |-> "clientId",
     redirect_uri |-> "origin/callback", response_type |-> "code",
     scope |-> "openid profile email", state |-> state]
\* The address of the application before any login().
AppUrl ==
    [endpoint |-> "origin", client_id |-> Null, redirect_uri |-> Null,
     response_type |-> Null, scope |-> Null, state |-> Null]

\* (a variant that keeps a pending state already stored: first write wins)
loginSession_keepsFirst(ss, state) ==
    IF getItem(ss, "oauth_state") # Null THEN ss ELSE setItem(ss, "oauth_state", state)

\* login(): what it leaves in sessionStorage.
loginSession(ss, state) == setItem(ss, "oauth_state", state)

\* The state check of handleCallback: passes when state === savedState.
stateMatches_unsetPasses(state, savedState) == savedState = Null \/ state = savedState
stateMatches(state, savedState) == state = savedState

\* (a variant that does not look at the error parameter)
callbackCheck_ignoresError(q, ss) ==
    IF ~Truthy(q.code) THEN MissingCodeError
    ELSE IF q.state # getItem(ss, "oauth_state") THEN CsrfError
    ELSE Pending

\* The synchronous part of handleCallback(): the error it throws, or Pending
\* when it goes on to send the token exchange.
callbackCheck(q, ss) ==
    IF Truthy(q.error) THEN ProviderError
    ELSE IF ~Truthy(q.code) THEN MissingCodeError
    ELSE IF ~stateMatches(q.state, getItem(ss, "oauth_state")) THEN CsrfError
    ELSE Pending

\* (a variant that adds the lifetime in seconds to the clock in milliseconds)
storeTokens_seconds(ls, accessToken, refreshToken, expiresIn, t) ==
    LET expiryTime == JsAdd(t, expiresIn)
    IN  setItem(setItem(ls, "cyberark_access_token", accessToken),
                "cyberark_token_expiry", NumToString(expiryTime))

\* storeTokens(accessToken, refreshToken, expiresIn) at time t.
storeTokens(ls, accessToken, refreshToken, expiresIn, t) ==
    LET expiryTime == JsAdd(t, JsMul(expiresIn, MsPerSecond))
    IN  setItem(setItem(ls, "cyberark_access_token", accessToken),
                "cyberark_token_expiry", NumToString(expiryTime))

\* handleCallback() once the token response has been read, at time t: how
\* it settles, and what it leaves in the two stores.
callbackOutcome(resp) == IF ~responseOk(resp.status) THEN TokenExchangeError ELSE Ok
\* (a variant that stores whatever the response holds, ok or not)
callbackLocal_noOkCheck(ls, resp, t) ==
    storeTokens(ls, resp.access_token, resp.refresh_token, resp.expires_in, t)
callbackLocal(ls, resp, t) ==
    IF ~responseOk(resp.status) THEN ls
    ELSE storeTokens(ls, resp.access_token, resp.refresh_token, resp.expires_in, t)
callbackSession(ss, resp) ==
    IF ~responseOk(resp.status) THEN ss ELSE removeItem(ss, "oauth_state")

\* (variants: a logout() that leaves the access token and the expiry in
\* place; one that leaves the expiry in place; one that leaves the pending
\* state in place)
logoutLocal_refreshOnly(ls) == removeItem(ls, "cyberark_refresh_token")
logoutLocal_tokenOnly(ls) == removeItem(ls, "cyberark_access_token")
logoutSession_keepsState(ss) == ss

\* logout(): what it leaves in the two stores.
logoutLocal(ls) ==
    removeItem(removeItem(ls, "cyberark_access_token"), "cyberark_token_expiry")
logoutSession(ss) == removeItem(ss, "oauth_state")

(***************************************************************************)
(* History: every action records what it did.                              *)
(*   op       the function that ran                                        *)
(*   phase    "call" for the invocation, "resume" after an await           *)
(*   outcome  Pending while the call is suspended, Ok, or the error thrown *)
(*   query    window.location.search, for handleCallback                   *)
(*   resp     the HTTP response this step handled                          *)
(*   ret      the value a resolved call returned                           *)
(*   sent     whether this step issued a fetch()                           *)
(*   nav      whether this step assigned window.location.href              *)
(***************************************************************************)
Event(op, phase, outcome, query, resp, ret, sent, nav) ==
    [op |-> op, phase |-> phase, outcome |-> outcome, query |-> query, resp |-> resp,
     ret |-> ret, sent |-> sent, nav |-> nav]
SyncEvent(op, nav) == Event(op, "call", Ok, NoQuery, NoResp, Null, FALSE, nav)

\* An async call suspended at an await: which function, at which await
\* ("fetch": the network round trip), and what its closure holds: the query
\* string read, or the bearer token sent.
CallbackCall(pc, q) == [kind |-> "handleCallback", pc |-> pc, query |-> q, token |-> Null]
GatewayCall(pc, token) == [kind |-> "gateway", pc |-> pc, query |-> NoQuery, token |-> token]

Suspended(kind, pc) == {c \in BagToSet(inflight) : c.kind = kind /\ c.pc = pc}
Settle(c) == inflight (-) SetToBag({c})
CanSuspend == BagCardinality(inflight) < MaxInFlight

\* grantedBy when localStorage holds no token stored by a callback.
NoGrant == "#none"

\* toolReturn while neither runCouncil nor runDxO has run.
NotRun == [op |-> "none", outcome |-> Pending, path |-> "none", ret |-> JUndefined]

\* gwSettled while no call of the gateway client has settled.
NotSettled ==
    [op |-> "none", id |-> "", status |-> 0, body |-> "", outcome |-> Pending,
     message |-> "", ret |-> JUndefined,
     health |-> [status |-> "", tools |-> 0, error |-> ""]]

\* The Callback component before it is mounted.
Unmounted ==
    [status |-> "unmounted", error |-> Null, mounts |-> 0, calls |-> 0, timer |-> FALSE]

\* The App component as first rendered: useState('council'), useState(false),
\* useState(null), useState(null), and the ChatInterface's useState('').
AppAtRest ==
    [mode |-> "council", loading |-> FALSE, error |-> Null, result |-> JNull,
     question |-> ""]

\* The variables of the gateway client, of the view and of the App, at rest.
AuxInit ==
    /\ gwSent = <<>>
    /\ gwPending = <<>>
    /\ gwSettled = NotSettled
    /\ view = Unmounted
    /\ app = AppAtRest

Init ==
    /\ now = 0
    /\ localStorage = [k \in LocalKeys |-> Null]
    /\ sessionStorage = [k \in SessionKeys |-> Null]
    /\ href = AppUrl
    /\ inflight = EmptyBag
    /\ lastEvent = SyncEvent("init", FALSE)
    /\ grantedBy = NoGrant
    /\ toolResult = JUndefined
    /\ toolReturn = NotRun
    /\ AuxInit

\* Time passes.
Tick ==
    /\ now + TickMs <= MaxTime
    /\ now' = now + TickMs
    /\ lastEvent' = SyncEvent("tick", FALSE)
    /\ UNCHANGED <<localStorage, sessionStorage, href, inflight, grantedBy, auxVars>>

\* cyberarkAuth.login(), called by the UI.
Login ==
    \E state \in StateVals :
        /\ sessionStorage' = loginSession(sessionStorage, state)
        /\ href' = AuthUrl(state)
        /\ lastEvent' = SyncEvent("login", TRUE)
        /\ UNCHANGED <<now, localStorage, inflight, grantedBy, auxVars>>

\* cyberarkAuth.logout(), called by the UI.
Logout ==
    /\ localStorage' = logoutLocal(localStorage)
    /\ sessionStorage' = logoutSession(sessionStorage)
    /\ lastEvent' = SyncEvent("logout", FALSE)
    /\ grantedBy' = NoGrant
    /\ UNCHANGED <<now, href, inflight, auxVars>>

\* cyberarkAuth.handleCallback() up to its first await: the checks of the
\* query string and, when they pass, the fetch of the token exchange.
HandleCallback ==
    \E q \in Queries :
        LET outcome == callbackCheck(q, sessionStorage)
        IN  /\ outcome = Pending => CanSuspend
            /\ inflight' = IF outcome = Pending
                           THEN inflight (+) SetToBag({CallbackCall("fetch", q)})
                           ELSE inflight
            /\ lastEvent' = Event("handleCallback", "call", outcome, q, NoResp, Null,
                                  outcome = Pending, FALSE)
            /\ UNCHANGED <<now, localStorage, sessionStorage, href, grantedBy, auxVars>>

\* await fetch(tokenExchangeEndpoint) settles and handleCallback() runs to its
\* end.  Not ok: throw with the body text.  Ok: store the tokens at the time
\* the body has been read, remove the pending state, return the access token.
\* (The awaits of tokenResponse.text() and tokenResponse.json() touch no
\* shared state and are part of this step; the clock may advance before it.)
ExchangeResponse ==
    \E c \in Suspended("handleCallback", "fetch") :
        \E resp \in TokenResponses :
            /\ localStorage' = callbackLocal(localStorage, resp, now)
            /\ sessionStorage' = callbackSession(sessionStorage, resp)
            /\ inflight' = Settle(c)
            /\ lastEvent' = Event("handleCallback", "resume", callbackOutcome(resp), c.query,
                                  resp,
                                  IF callbackOutcome(resp) = Ok THEN resp.access_token
                                  ELSE Null,
                                  FALSE, FALSE)
            /\ grantedBy' = IF callbackOutcome(resp) = Ok THEN c.query.state ELSE grantedBy
            /\ UNCHANGED <<now, href, auxVars>>

\* fetch rejects (no response), or the response is ok and
\* tokenResponse.json() rejects (no JSON body): the rejection propagates.
ExchangeRejected ==
    \E c \in Suspended("handleCallback", "fetch") :
        \E outcome \in {FetchFailed, JsonSyntaxError} :
            /\ inflight' = Settle(c)
            /\ lastEvent' = Event("handleCallback", "resume", outcome, c.query,
                                  IF outcome = FetchFailed THEN NoResp ELSE StatusOnly(200),
                                  Null, FALSE, FALSE)
            /\ UNCHANGED <<now, localStorage, sessionStorage, href, grantedBy, auxVars>>

(***************************************************************************)
(* Gateway client (api-gateway.js).  listTools, callTool, runCouncil,      *)
(* runDxO and healthCheck reach the session only through callGateway.      *)
(***************************************************************************)
Unauthorized == 401

\* (variants: login() on 401 only; no logout() on 401; logout() on every
\* failed status; a second request after a 401)
gatewayLogsIn_on401Only(outcome) == outcome = SessionExpiredError
gatewayLogsOut_never(outcome) == FALSE
gatewayLogsOut_onAnyStatus(outcome) == outcome \in {SessionExpiredError, GatewayHttpError}
gatewayRetries_on401(outcome) == outcome = SessionExpiredError

\* Whether callGateway calls cyberarkAuth.login() on the path that ends in
\* `outcome`.
gatewayLogsIn(outcome) == outcome \in {AuthRequiredError, SessionExpiredError}

\* Whether callGateway calls cyberarkAuth.logout() on the path that ends in
\* `outcome`.
gatewayLogsOut(outcome) == outcome = SessionExpiredError

\* Whether callGateway issues a further fetch() once the response has been
\* read, on the path that ends in `outcome`: every such path throws or
\* returns, none loops or calls callGateway again.
gatewayRetries(outcome) == FALSE

\* The stores and the address bar after callGateway took the path that ends
\* in `outcome`, login() having drawn `state`.
gatewayLocal(ls, outcome) == IF gatewayLogsOut(outcome) THEN logoutLocal(ls) ELSE ls
gatewaySession(ss, outcome, state) ==
    LET out == IF gatewayLogsOut(outcome) THEN logoutSession(ss) ELSE ss
    IN  IF gatewayLogsIn(outcome) THEN loginSession(out, state) ELSE out
gatewayHref(h, outcome, state) == IF gatewayLogsIn(outcome) THEN AuthUrl(state) ELSE h
\* The states login() may draw on that path (none where it is not called).
gatewayDraws(outcome) == IF gatewayLogsIn(outcome) THEN StateVals ELSE {Null}

\* The head of callGateway on the token getAccessToken() returned: without
\* one it throws (after login()), with one it goes on to fetch.
\* (a variant that fetches whatever getAccessToken() returned)
gatewayStart_sendsAnyway(token) == Pending
gatewayStart(token) == IF ~Truthy(token) THEN AuthRequiredError ELSE Pending

\* callGateway(method, params) up to its first await.
CallGateway ==
    LET token == getAccessToken(localStorage)
        outcome == gatewayStart(token)
    IN  \E state \in gatewayDraws(outcome) :
            /\ outcome = Pending => CanSuspend
            /\ inflight' = IF outcome = Pending
                           THEN inflight (+) SetToBag({GatewayCall("fetch", token)})
                           ELSE inflight
            /\ localStorage' = gatewayLocal(localStorage, outcome)
            /\ sessionStorage' = gatewaySession(sessionStorage, outcome, state)
            /\ href' = gatewayHref(href, outcome, state)
            /\ lastEvent' = Event("callGateway", "call", outcome, NoQuery, NoResp, Null,
                                  outcome = Pending, gatewayLogsIn(outcome))
            /\ grantedBy' = IF gatewayLogsOut(outcome) THEN NoGrant ELSE grantedBy
            /\ UNCHANGED <<now, auxVars>>

\* How callGateway settles once the response and (for a status other than
\* 401) its body have been read.
gatewayOutcomes(status) ==
    IF status = Unauthorized THEN {SessionExpiredError}
    ELSE IF ~responseOk(status) THEN {GatewayHttpError}
    ELSE {GatewayRpcError, JsonSyntaxError, Ok}

\* await fetch(GATEWAY_URL) settles and the handler runs to its end: 401
\* logs out, logs in and throws; another failed status throws with the body
\* text; a JSON-RPC error throws; anything else is returned.  (The awaits of
\* response.text() and response.json() touch no shared state and are part of
\* this step.)
GatewayResponse ==
    \E c \in Suspended("gateway", "fetch") :
        \/ \E status \in GatewayStatuses :
            \E outcome \in gatewayOutcomes(status) :
              \E state \in gatewayDraws(outcome) :
                /\ inflight' = IF gatewayRetries(outcome) THEN inflight ELSE Settle(c)
                /\ localStorage' = gatewayLocal(localStorage, outcome)
                /\ sessionStorage' = gatewaySession(sessionStorage, outcome, state)
                /\ href' = gatewayHref(href, outcome, state)
                /\ lastEvent' = Event("callGateway", "resume", outcome, NoQuery,
                                      StatusOnly(status),
                                      IF outcome = Ok THEN "data" ELSE Null,
                                      gatewayRetries(outcome), gatewayLogsIn(outcome))
                /\ grantedBy' = IF gatewayLogsOut(outcome) THEN NoGrant ELSE grantedBy
                /\ UNCHANGED <<now, auxVars>>
        \/ /\ inflight' = Settle(c)
           /\ lastEvent' = Event("callGateway", "resume", FetchFailed, NoQuery, NoResp, Null,
                                 FALSE, FALSE)
           /\ UNCHANGED <<now, localStorage, sessionStorage, href, grantedBy, auxVars>>

(***************************************************************************)
(* Tool results (api-gateway.js): runCouncil and runDxO unwrap the result  *)
(* of callTool, the `result` member of the JSON-RPC response.              *)
(***************************************************************************)
MalformedToolResponseError == "Invalid response format from agent"

\* The texts a tool result carries in content[0].text.
OutputValues ==
    {"null", "false", "true", "0", "7", "\"\"", "\"Q\"", "{}", "{\"question\":\"Q\"}"}
Texts ==
    {"", " ", "not json", "{", "{\"output\":", "{\"question\":\"Q\"}x",
     "null", "false", "0", "\"\"", "\"Q\"", "{}", "[]",
     "{\"question\":\"Q\"}", "{\"question\":\"Q\",\"stage1\":[]}",
     "{\"output\":{\"question\":\"Q\"},\"metadata\":{}}"}
    \cup {"{\"output\":" \o v \o "}" : v \in OutputValues}

\* The results callTool resolves with: an object with no content, with a
\* content that is null or an empty array, with a first element that has
\* no text, or with a first element that has one (alone, or followed by a
\* second element).
TextElement(text) == JObj(<<Member("type", JStr("text")), Member("text", JStr(text))>>)
ToolResults ==
    {JObj(<<>>),
     JObj(<<Member("isError", JBool(FALSE))>>),
     JObj(<<Member("content", JNull)>>),
     JObj(<<Member("content", JArr(<<>>))>>),
     JObj(<<Member("content", JArr(<<Member("", JObj(<<>>))>>))>>),
     JObj(<<Member("content", JArr(<<Member("", JObj(<<Member("type", JStr("text"))>>))>>))>>)}
    \cup {JObj(<<Member("content", JArr(<<Member("", TextElement(text))>>))>>) :
             text \in Texts}
    \cup {JObj(<<Member("content",
                        JArr(<<Member("", TextElement(text)), Member("", TextElement("{}"))>>)),
                 Member("isError", JBool(FALSE))>>) :
             text \in Texts}

\* How runCouncil / runDxO settle: the error thrown or Ok, the value
\* returned, and the branch taken ("parse": the branch that parses
\* content[0].text; "passthrough": the fallback that logs 'Unexpected
\* response format' and returns the result).
Thrown(error, path) == [outcome |-> error, path |-> path, ret |-> JUndefined]
Returned(value, path) == [outcome |-> Ok, path |-> path, ret |-> value]

\* result.content[0]?.text
contentText(result) == OptGet(First(Get(result, "content")), "text")

\* The body of runCouncil after `await callTool(...)` resolved with
\* `result`.  Inside the try, JSON.parse may throw and so may the read of
\* lambdaResponse.output when the text parsed to null; the catch turns
\* either into the same error.
runCouncil(result) ==
    IF JsTruthy(Get(result, "content")) /\ JsTruthy(contentText(result))
    THEN LET parsed == JsonParse(contentText(result).s)
             lambdaResponse == parsed.val
         IN  IF ~parsed.ok THEN Thrown(MalformedToolResponseError, "parse")
             ELSE IF lambdaResponse.t = "null"
                  THEN Thrown(MalformedToolResponseError, "parse")
             ELSE IF JsTruthy(Get(lambdaResponse, "output"))
                  THEN Returned(Get(lambdaResponse, "output"), "parse")
             ELSE Returned(lambdaResponse, "parse")
    ELSE Returned(result, "passthrough")

\* The body of runDxO after `await callTool(...)`: the same statements.
runDxO(result) ==
    IF JsTruthy(Get(result, "content")) /\ JsTruthy(contentText(result))
    THEN LET parsed == JsonParse(contentText(result).s)
             lambdaResponse == parsed.val
         IN  IF ~parsed.ok THEN Thrown(MalformedToolResponseError, "parse")
             ELSE IF lambdaResponse.t = "null"
                  THEN Thrown(MalformedToolResponseError, "parse")
             ELSE IF JsTruthy(Get(lambdaResponse, "output"))
                  THEN Returned(Get(lambdaResponse, "output"), "parse")
             ELSE Returned(lambdaResponse, "parse")
    ELSE Returned(result, "passthrough")

Ran(op, settled) ==
    [op |-> op, outcome |-> settled.outcome, path |-> settled.path, ret |-> settled.ret]

\* A specification of the unwrapping alone: callTool has resolved with some
\* result, on a session at rest.
InitUnwrap ==
    /\ now = 0
    /\ localStorage = [k \in LocalKeys |-> Null]
    /\ sessionStorage = [k \in SessionKeys |-> Null]
    /\ href = AppUrl
    /\ inflight = EmptyBag
    /\ lastEvent = SyncEvent("init", FALSE)
    /\ grantedBy = NoGrant
    /\ toolResult \in ToolResults
    /\ toolReturn = NotRun
    /\ AuxInit

\* runCouncil(question) resumes with the result of callTool and settles.
RunCouncil ==
    /\ toolReturn' = Ran("runCouncil", runCouncil(toolResult))
    /\ UNCHANGED <<sessionVars, toolResult, gwVars, view, app>>

\* runDxO(question) resumes with the result of callTool and settles.
RunDxO ==
    /\ toolReturn' = Ran("runDxO", runDxO(toolResult))
    /\ UNCHANGED <<sessionVars, toolResult, gwVars, view, app>>

NextUnwrap ==
    \/ RunCouncil
    \/ RunDxO

SpecUnwrap == InitUnwrap /\ [][NextUnwrap]_vars

(***************************************************************************)
(* The gateway client call by call (api-gateway.js): the request each call *)
(* sends, the response it reads, and how callGateway and its wrappers      *)
(* listTools, callTool and healthCheck settle on it.                       *)
(***************************************************************************)
MaxCalls == 2            \* calls of the gateway client started in a behaviour

TypeErrorName == "TypeError"
AuthRequiredMessage == "Authentication required"
SessionExpiredMessage == "Session expired, please log in again"
FetchFailedMessage == "Failed to fetch"
SyntaxErrorMessage == "Unexpected token in JSON"
NullReadMessage == "Cannot read properties of null"
UndefinedReadMessage == "Cannot read properties of undefined"

\* JSON.stringify(value)
RECURSIVE JsonStringify(_), StringifyMembers(_, _), StringifyElements(_, _)
JsonStringify(value) ==
    CASE value.t = "str" -> "\"" \o value.s \o "\""
      [] value.t = "obj" -> "{" \o StringifyMembers(value.kv, 1) \o "}"
      [] value.t = "arr" -> "[" \o StringifyElements(value.kv, 1) \o "]"
      [] OTHER -> value.s
StringifyMembers(kv, i) ==
    IF i > Len(kv) THEN ""
    ELSE "\"" \o kv[i].k \o "\":" \o JsonStringify(kv[i].v)
         \o (IF i < Len(kv) THEN "," ELSE "") \o StringifyMembers(kv, i + 1)
StringifyElements(kv, i) ==
    IF i > Len(kv) THEN ""
    ELSE JsonStringify(kv[i].v)
         \o (IF i < Len(kv) THEN "," ELSE "") \o StringifyElements(kv, i + 1)

\* `${value}` in a template string.
JsTemplate(value) ==
    CASE value.t = "obj" -> "[object Object]"
      [] value.t = "undefined" -> "undefined"
      [] OTHER -> value.s

\* The functions of the client the UI calls, and the JSON-RPC method each
\* passes to callGateway.
GwOps == {"listTools", "callTool", "healthCheck"}
methodOf(op) == IF op = "callTool" THEN "tools/call" ELSE "tools/list"

\* payload.id: `${method}-${Date.now()}`
requestId(method, t) == method \o "-" \o NumToString(t)

\* What the gateway answers: the status and the text of the body.
GwStatuses == {200, 401, 403, 500}
GwBodies ==
    {"", "not json", "null", "{}",
     "{\"result\":{}}",
     "{\"result\":{\"tools\":[]}}",
     "{\"result\":{\"tools\":[{},{}]}}",
     "{\"error\":{\"code\":1,\"message\":\"boom\"}}",
     "{\"error\":{\"code\":1},\"result\":{\"tools\":[]}}",
     "{\"error\":null,\"result\":{\"tools\":[{}]}}"}
ErrorBodies == {"", "Internal Server Error"}
bodiesFor(status) == IF responseOk(status) THEN GwBodies ELSE ErrorBodies

\* How a function settles: the error it throws (its kind and message) or
\* the value it returns.
Threw(kind, message) == [outcome |-> kind, message |-> message, ret |-> JUndefined]
Resolved(value) == [outcome |-> Ok, message |-> "", ret |-> value]

\* (a variant that resolves with the data whenever it holds a result, and
\* looks at the error member only otherwise)
callGatewaySettles_resultFirst(status, body) ==
    IF status = Unauthorized THEN Threw(SessionExpiredError, SessionExpiredMessage)
    ELSE IF ~responseOk(status)
         THEN Threw(GatewayHttpError,
                    "Gateway error " \o NumToString(status) \o ": " \o body)
    ELSE LET parsed == JsonParse(body)
             data == parsed.val
             error == Get(data, "error")
         IN  IF ~parsed.ok THEN Threw(JsonSyntaxError, SyntaxErrorMessage)
             ELSE IF data.t = "null" THEN Threw(TypeErrorName, NullReadMessage)
             ELSE IF HasKey(data, "result") THEN Resolved(data)
             ELSE IF JsTruthy(error)
                  THEN Threw(GatewayRpcError, "Gateway error: " \o JsonStringify(error))
             ELSE Resolved(data)

\* callGateway once fetch() has resolved with `status` and a body `body`.
callGatewaySettles(status, body) ==
    IF status = Unauthorized THEN Threw(SessionExpiredError, SessionExpiredMessage)
    ELSE IF ~responseOk(status)
         THEN Threw(GatewayHttpError,
                    "Gateway error " \o NumToString(status) \o ": " \o body)
    ELSE LET parsed == JsonParse(body)
             data == parsed.val
             error == Get(data, "error")
         IN  IF ~parsed.ok THEN Threw(JsonSyntaxError, SyntaxErrorMessage)
             ELSE IF data.t = "null" THEN Threw(TypeErrorName, NullReadMessage)
             ELSE IF JsTruthy(error)
                  THEN Threw(GatewayRpcError,
                             "Gateway error: "
                             \o (IF JsTruthy(Get(error, "message"))
                                 THEN JsTemplate(Get(error, "message"))
                                 ELSE JsonStringify(error)))
             ELSE Resolved(data)

\* listTools / callTool on a settled callGateway: `response.result`.
resultOf(settled) ==
    IF settled.outcome # Ok THEN settled ELSE Resolved(Get(settled.ret, "result"))

\* tools.tools?.length || 0
toolCount(tools) ==
    LET list == Get(tools, "tools")
    IN  IF list.t = "arr" THEN Len(list.kv)
        ELSE IF list.t = "str" THEN Len(list.s)
        ELSE 0

\* healthCheck on a settled listTools: the object it resolves with.
NoHealth == [status |-> "", tools |-> 0, error |-> ""]
\* (a variant that reports healthy whatever listTools did)
healthOf_alwaysHealthy(settled) == [status |-> "healthy", tools |-> 0, error |-> ""]
healthOf(settled) ==
    IF settled.outcome # Ok
    THEN [status |-> "error", tools |-> 0, error |-> settled.message]
    ELSE IF settled.ret.t = "undefined"
         THEN [status |-> "error", tools |-> 0, error |-> UndefinedReadMessage]
    ELSE IF settled.ret.t = "null"
         THEN [status |-> "error", tools |-> 0, error |-> NullReadMessage]
    ELSE [status |-> "healthy", tools |-> toolCount(settled.ret), error |-> ""]

\* How `op` settles once its callGateway has settled as `settled`.
Settled(op, id, status, body, settled) ==
    LET inner == resultOf(settled)
    IN  IF op = "healthCheck"
        THEN [op |-> op, id |-> id, status |-> status, body |-> body, outcome |-> Ok,
              message |-> "", ret |-> JUndefined, health |-> healthOf(inner)]
        ELSE [op |-> op, id |-> id, status |-> status, body |-> body,
              outcome |-> inner.outcome, message |-> inner.message, ret |-> inner.ret,
              health |-> NoHealth]

\* A session stored by an earlier callback.
StoredSession ==
    [cyberark_access_token |-> "T1", cyberark_token_expiry |-> "2000",
     cyberark_refresh_token |-> Null]

\* The client at rest, on a tab that holds a session or none.
InitGateway ==
    /\ now = 0
    /\ localStorage \in {[k \in LocalKeys |-> Null], StoredSession}
    /\ sessionStorage = [k \in SessionKeys |-> Null]
    /\ href = AppUrl
    /\ inflight = EmptyBag
    /\ lastEvent = SyncEvent("init", FALSE)
    /\ grantedBy = NoGrant
    /\ toolResult = JUndefined
    /\ toolReturn = NotRun
    /\ AuxInit

RemoveAt(seq, i) == SubSeq(seq, 1, i - 1) \o SubSeq(seq, i + 1, Len(seq))

\* The UI calls listTools(), callTool() or healthCheck(): callGateway up to
\* its first await.  With no token stored it calls login() and throws; else
\* it sends the request.
GwInvoke ==
    \E op \in GwOps :
        LET token == getAccessToken(localStorage)
            outcome == gatewayStart(token)
            id == requestId(methodOf(op), now)
        IN  /\ Len(gwSent) + (IF outcome = Pending THEN 1 ELSE 0) <= MaxCalls
            /\ \E state \in gatewayDraws(outcome) :
                /\ sessionStorage' = gatewaySession(sessionStorage, outcome, state)
                /\ href' = gatewayHref(href, outcome, state)
            /\ localStorage' = gatewayLocal(localStorage, outcome)
            /\ gwSent' = IF outcome = Pending THEN Append(gwSent, id) ELSE gwSent
            /\ gwPending' = IF outcome = Pending
                            THEN Append(gwPending, [op |-> op, id |-> id, token |-> token])
                            ELSE gwPending
            /\ gwSettled' = IF outcome = Pending THEN gwSettled
                            ELSE Settled(op, "", 0, "",
                                         Threw(AuthRequiredError, AuthRequiredMessage))
            /\ UNCHANGED <<now, inflight, lastEvent, grantedBy, toolVars, view, app>>

\* fetch() resolves for one of the pending calls and the call runs to its
\* end: callGateway settles, then its wrapper.
GwRespond ==
    \E i \in 1..Len(gwPending) :
        \E status \in GwStatuses : \E body \in bodiesFor(status) :
            LET call == gwPending[i]
                settled == callGatewaySettles(status, body)
            IN  /\ \E state \in gatewayDraws(settled.outcome) :
                    /\ sessionStorage' = gatewaySession(sessionStorage, settled.outcome, state)
                    /\ href' = gatewayHref(href, settled.outcome, state)
                /\ localStorage' = gatewayLocal(localStorage, settled.outcome)
                /\ gwPending' = RemoveAt(gwPending, i)
                /\ gwSettled' = Settled(call.op, call.id, status, body, settled)
                /\ UNCHANGED <<now, inflight, lastEvent, grantedBy, gwSent, toolVars, view,
                             app>>

\* fetch() rejects for one of the pending calls: the rejection propagates.
GwFetchFails ==
    \E i \in 1..Len(gwPending) :
        /\ gwPending' = RemoveAt(gwPending, i)
        /\ gwSettled' = Settled(gwPending[i].op, gwPending[i].id, 0, "",
                                Threw(FetchFailed, FetchFailedMessage))
        /\ UNCHANGED <<sessionVars, gwSent, toolVars, view, app>>

NextGateway ==
    \/ Tick
    \/ GwInvoke
    \/ GwRespond
    \/ GwFetchFails

SpecGateway == InitGateway /\ [][NextGateway]_vars

(***************************************************************************)
(* The PKCE variant of CyberArkAuth (the client implementation of the      *)
(* gateway setup guide): the browser exchanges the code itself, with a     *)
(* code verifier, and keeps the refresh token.                             *)
(***************************************************************************)
Verifiers == {"v1"}                       \* values generatePKCE returns
InvalidStateError == "Invalid state parameter"

\* generatePKCE(): the challenge sent for a verifier (its encoding).
challengeOf(verifier) == "b64url(" \o verifier \o ")"

\* The authorization URL the variant's login() assigns.
PkceAuthUrl(state, verifier) ==
    [endpoint |-> "authEndpoint", client_id |-> "clientId",
     redirect_uri |-> "http://localhost:5173/callback", response_type |-> "code",
     scope |-> "openid profile email", state |-> state,
     code_challenge |-> challengeOf(verifier), code_challenge_method |-> "S256"]
PkceAppUrl ==
    [endpoint |-> "origin", client_id |-> Null, redirect_uri |-> Null,
     response_type |-> Null, scope |-> Null, state |-> Null,
     code_challenge |-> Null, code_challenge_method |-> Null]

\* The synchronous part of the variant's handleCallback(): it reads code and
\* state only, and checks the state only.
pkceCallbackCheck(q, ss) ==
    IF q.state # getItem(ss, "oauth_state") THEN InvalidStateError ELSE Pending

\* (a variant that adds the lifetime in seconds to the clock in milliseconds)
pkceStoreTokens_seconds(ls, accessToken, refreshToken, expiresIn, t) ==
    LET expiryTime == JsAdd(t, expiresIn)
    IN  setItem(setItem(setItem(ls, "cyberark_access_token", accessToken),
                        "cyberark_refresh_token", refreshToken),
                "cyberark_token_expiry", NumToString(expiryTime))

\* The variant's storeTokens at time t: it keeps the refresh token too.
pkceStoreTokens(ls, accessToken, refreshToken, expiresIn, t) ==
    LET expiryTime == JsAdd(t, JsMul(expiresIn, MsPerSecond))
    IN  setItem(setItem(setItem(ls, "cyberark_access_token", accessToken),
                        "cyberark_refresh_token", refreshToken),
                "cyberark_token_expiry", NumToString(expiryTime))

\* The variant's getAccessToken() at time t: null without a token or once
\* the stored expiry has been reached.
pkceGetAccessToken(ls, t) ==
    LET token == getItem(ls, "cyberark_access_token")
        expiry == getItem(ls, "cyberark_token_expiry")
        parsed == IF expiry = Null THEN NaN ELSE ParseInt(expiry)
    IN  IF ~Truthy(token) \/ (parsed # NaN /\ t >= parsed) THEN Null ELSE token

\* The variant's logout().
pkceLogoutLocal(ls) ==
    removeItem(removeItem(removeItem(ls, "cyberark_access_token"),
                          "cyberark_refresh_token"), "cyberark_token_expiry")
pkceLogoutSession(ss) == removeItem(removeItem(ss, "pkce_verifier"), "oauth_state")

\* The callback URLs the variant reads (it ignores an error parameter).
PkceQueries == {q \in Queries : q.error = Null}

InitPkce ==
    /\ now = 0
    /\ localStorage = [k \in LocalKeys |-> Null]
    /\ sessionStorage = [k \in SessionKeys |-> Null]
    /\ href = PkceAppUrl
    /\ inflight = EmptyBag
    /\ lastEvent = SyncEvent("init", FALSE)
    /\ grantedBy = NoGrant
    /\ toolResult = JUndefined
    /\ toolReturn = NotRun
    /\ AuxInit

\* login() of the variant.
PkceLogin ==
    \E state \in StateVals, verifier \in Verifiers :
        /\ sessionStorage' = setItem(setItem(sessionStorage, "pkce_verifier", verifier),
                                     "oauth_state", state)
        /\ href' = PkceAuthUrl(state, verifier)
        /\ lastEvent' = SyncEvent("login", TRUE)
        /\ UNCHANGED <<now, localStorage, inflight, grantedBy, auxVars>>

\* logout() of the variant.
PkceLogout ==
    /\ localStorage' = pkceLogoutLocal(localStorage)
    /\ sessionStorage' = pkceLogoutSession(sessionStorage)
    /\ lastEvent' = SyncEvent("logout", FALSE)
    /\ grantedBy' = NoGrant
    /\ UNCHANGED <<now, href, inflight, auxVars>>

\* getAccessToken() of the variant, called by the application.
PkceGetAccessToken ==
    /\ lastEvent' = Event("getAccessToken", "call", Ok, NoQuery, NoResp,
                          pkceGetAccessToken(localStorage, now), FALSE, FALSE)
    /\ UNCHANGED <<now, localStorage, sessionStorage, href, inflight, grantedBy, auxVars>>

\* handleCallback() of the variant up to its await: the state check and,
\* when it passes, the fetch of the token endpoint.
PkceHandleCallback ==
    \E q \in PkceQueries :
        LET outcome == pkceCallbackCheck(q, sessionStorage)
        IN  /\ outcome = Pending => CanSuspend
            /\ inflight' = IF outcome = Pending
                           THEN inflight (+) SetToBag({CallbackCall("fetch", q)})
                           ELSE inflight
            /\ lastEvent' = Event("handleCallback", "call", outcome, q, NoResp, Null,
                                  outcome = Pending, FALSE)
            /\ UNCHANGED <<now, localStorage, sessionStorage, href, grantedBy, auxVars>>

\* The token endpoint answers and the variant's handleCallback() runs to its
\* end: not ok throws; ok stores the tokens and returns the access token.
\* The pending state and the verifier stay in sessionStorage.
PkceExchangeResponse ==
    \E c \in Suspended("handleCallback", "fetch") :
        \E resp \in TokenResponses :
            LET outcome == IF ~responseOk(resp.status) THEN TokenExchangeError ELSE Ok
            IN  /\ localStorage' = IF outcome = Ok
                                   THEN pkceStoreTokens(localStorage, resp.access_token,
                                                        resp.refresh_token, resp.expires_in, now)
                                   ELSE localStorage
                /\ inflight' = Settle(c)
                /\ lastEvent' = Event("handleCallback", "resume", outcome, c.query, resp,
                                      IF outcome = Ok THEN resp.access_token ELSE Null,
                                      FALSE, FALSE)
                /\ grantedBy' = IF outcome = Ok THEN c.query.state ELSE grantedBy
                /\ UNCHANGED <<now, sessionStorage, href, auxVars>>

\* fetch rejects, or response.json() rejects: the rejection propagates.
PkceExchangeRejected ==
    \E c \in Suspended("handleCallback", "fetch") :
        \E outcome \in {FetchFailed, JsonSyntaxError} :
            /\ inflight' = Settle(c)
            /\ lastEvent' = Event("handleCallback", "resume", outcome, c.query,
                                  IF outcome = FetchFailed THEN NoResp ELSE StatusOnly(200),
                                  Null, FALSE, FALSE)
            /\ UNCHANGED <<now, localStorage, sessionStorage, href, grantedBy, auxVars>>

\* refreshAccessToken() of the variant once the token endpoint answered at
\* time t: it reads the JSON body and stores its three fields, whatever the
\* status and whatever the body holds.
pkceRefreshLocal(ls, resp, t) ==
    pkceStoreTokens(ls, resp.access_token, resp.refresh_token, resp.expires_in, t)

\* Calls suspended in the variant: refreshAccessToken() at its fetch, holding
\* the refresh token it read; invokeGateway() at its fetch of the gateway
\* ("fetch") or inside its call of refreshAccessToken() ("refresh"), holding
\* the bearer token it sent.
RefreshCall(refreshToken) ==
    [kind |-> "refresh", pc |-> "fetch", query |-> NoQuery, token |-> refreshToken]
InvokeCall(pc, token) == [kind |-> "invoke", pc |-> pc, query |-> NoQuery, token |-> token]

\* grantedBy when the stored token was written by refreshAccessToken().
RefreshGrant == "#refresh"

\* refreshAccessToken() of the variant, called by the application, up to its
\* await: it reads the refresh token and posts it, stored or not.
PkceRefresh ==
    /\ CanSuspend
    /\ inflight' = inflight (+) SetToBag({RefreshCall(getItem(localStorage,
                                                               "cyberark_refresh_token"))})
    /\ lastEvent' = Event("refreshAccessToken", "call", Pending, NoQuery, NoResp, Null,
                          TRUE, FALSE)
    /\ UNCHANGED <<now, localStorage, sessionStorage, href, grantedBy, auxVars>>

\* The token endpoint answers the refresh: the body is stored and its
\* access_token returned.
PkceRefreshResponse ==
    \E c \in Suspended("refresh", "fetch") :
        \E resp \in TokenResponses :
            /\ localStorage' = pkceRefreshLocal(localStorage, resp, now)
            /\ inflight' = Settle(c)
            /\ lastEvent' = Event("refreshAccessToken", "resume", Ok, NoQuery, resp,
                                  resp.access_token, FALSE, FALSE)
            /\ grantedBy' = RefreshGrant
            /\ UNCHANGED <<now, sessionStorage, href, auxVars>>

\* fetch rejects, or response.json() rejects: the rejection propagates.
PkceRefreshRejected ==
    \E c \in Suspended("refresh", "fetch") :
        \E outcome \in {FetchFailed, JsonSyntaxError} :
            /\ inflight' = Settle(c)
            /\ lastEvent' = Event("refreshAccessToken", "resume", outcome, NoQuery,
                                  IF outcome = FetchFailed THEN NoResp ELSE StatusOnly(200),
                                  Null, FALSE, FALSE)
            /\ UNCHANGED <<now, localStorage, sessionStorage, href, grantedBy, auxVars>>

(***************************************************************************)
(* invokeGateway of the setup guide: the gateway client of the variant.    *)
(* One invocation is followed at a time.                                   *)
(***************************************************************************)
InvokeOutstanding == \E c \in BagToSet(inflight) : c.kind = "invoke"

\* The head of invokeGateway at time t, on first entry and on every retry:
\* without a token from getAccessToken() it calls login() and returns
\* undefined; with one it fetches the gateway.
invokeSends(ls, t) == Truthy(pkceGetAccessToken(ls, t))

\* Whether invokeGateway, having read a response with `status`, calls
\* refreshAccessToken() and then itself again.
\* (a variant that throws on 401 instead)
invokeRetries_never(status) == FALSE
invokeRetries(status) == status = Unauthorized

\* invokeGateway(prompt, mode) up to its first await.
PkceInvoke ==
    /\ ~InvokeOutstanding
    /\ IF invokeSends(localStorage, now)
       THEN /\ CanSuspend
            /\ inflight' = inflight (+)
                             SetToBag({InvokeCall("fetch", pkceGetAccessToken(localStorage, now))})
            /\ lastEvent' = Event("invokeGateway", "call", Pending, NoQuery, NoResp, Null,
                                  TRUE, FALSE)
            /\ UNCHANGED <<sessionStorage, href>>
       ELSE \E state \in StateVals, verifier \in Verifiers :
            /\ sessionStorage' = setItem(setItem(sessionStorage, "pkce_verifier", verifier),
                                         "oauth_state", state)
            /\ href' = PkceAuthUrl(state, verifier)
            /\ lastEvent' = Event("invokeGateway", "call", Ok, NoQuery, NoResp, Undefined,
                                  FALSE, TRUE)
            /\ UNCHANGED inflight
    /\ UNCHANGED <<now, localStorage, grantedBy, auxVars>>

\* The gateway answers: 401 goes on to refreshAccessToken(), which posts the
\* stored refresh token; another failed status throws; an ok response is
\* returned through response.json().  Or the fetch rejects.
PkceInvokeResponse ==
    \E c \in Suspended("invoke", "fetch") :
        \/ \E status \in GatewayStatuses :
            \E outcome \in IF invokeRetries(status) THEN {Pending}
                           ELSE IF ~responseOk(status) THEN {GatewayHttpError}
                           ELSE {Ok, JsonSyntaxError} :
                /\ inflight' = IF outcome = Pending
                               THEN Settle(c) (+) SetToBag({InvokeCall("refresh", c.token)})
                               ELSE Settle(c)
                /\ lastEvent' = Event("invokeGateway", "resume", outcome, NoQuery,
                                      StatusOnly(status),
                                      IF outcome = Ok THEN "data" ELSE Null,
                                      outcome = Pending, FALSE)
        \/ /\ inflight' = Settle(c)
           /\ lastEvent' = Event("invokeGateway", "resume", FetchFailed, NoQuery, NoResp,
                                 Null, FALSE, FALSE)
    /\ UNCHANGED <<now, localStorage, sessionStorage, href, grantedBy, auxVars>>

\* The token endpoint answers the refresh started by invokeGateway: the body
\* is stored and invokeGateway calls itself, which reads the token again and
\* fetches the gateway again, or calls login() and returns.
PkceInvokeRefreshed ==
    \E c \in Suspended("invoke", "refresh") :
        \E resp \in TokenResponses :
            LET ls == pkceRefreshLocal(localStorage, resp, now)
            IN  /\ localStorage' = ls
                /\ grantedBy' = RefreshGrant
                /\ IF invokeSends(ls, now)
                   THEN /\ inflight' = Settle(c) (+)
                                         SetToBag({InvokeCall("fetch",
                                                              pkceGetAccessToken(ls, now))})
                        /\ lastEvent' = Event("invokeGateway", "retry", Pending, NoQuery,
                                              resp, Null, TRUE, FALSE)
                        /\ UNCHANGED <<sessionStorage, href>>
                   ELSE \E state \in StateVals, verifier \in Verifiers :
                        /\ inflight' = Settle(c)
                        /\ sessionStorage' = setItem(setItem(sessionStorage, "pkce_verifier",
                                                             verifier), "oauth_state", state)
                        /\ href' = PkceAuthUrl(state, verifier)
                        /\ lastEvent' = Event("invokeGateway", "retry", Ok, NoQuery, resp,
                                              Undefined, FALSE, TRUE)
                /\ UNCHANGED <<now, auxVars>>

\* The refresh started by invokeGateway rejects: invokeGateway rethrows.
PkceInvokeRefreshRejected ==
    \E c \in Suspended("invoke", "refresh") :
        \E outcome \in {FetchFailed, JsonSyntaxError} :
            /\ inflight' = Settle(c)
            /\ lastEvent' = Event("invokeGateway", "retry", outcome, NoQuery,
                                  IF outcome = FetchFailed THEN NoResp ELSE StatusOnly(200),
                                  Null, FALSE, FALSE)
            /\ UNCHANGED <<now, localStorage, sessionStorage, href, grantedBy, auxVars>>

NextPkce ==
    \/ Tick
    \/ PkceLogin
    \/ PkceLogout
    \/ PkceGetAccessToken
    \/ PkceHandleCallback
    \/ PkceExchangeResponse
    \/ PkceExchangeRejected

SpecPkce == InitPkce /\ [][NextPkce]_vars

\* The variant after its flows of login() and handleCallback(): nothing
\* stored, or the session a callback of login() stored at time 0, the state
\* and the verifier still in sessionStorage.
PkceStoredSessions ==
    {pkceStoreTokens([k \in LocalKeys |-> Null], a, r, e, 0) :
        a \in Tokens, r \in RefreshTokens, e \in ExpiresIn}
InitRefresh ==
    /\ now = 0
    /\ \/ /\ localStorage = [k \in LocalKeys |-> Null]
          /\ sessionStorage = [k \in SessionKeys |-> Null]
          /\ href = PkceAppUrl
          /\ grantedBy = NoGrant
       \/ \E state \in StateVals, verifier \in Verifiers :
          /\ localStorage \in PkceStoredSessions
          /\ sessionStorage = setItem(setItem([k \in SessionKeys |-> Null],
                                              "pkce_verifier", verifier), "oauth_state", state)
          /\ href = PkceAuthUrl(state, verifier)
          /\ grantedBy = state
    /\ inflight = EmptyBag
    /\ lastEvent = SyncEvent("init", FALSE)
    /\ toolResult = JUndefined
    /\ toolReturn = NotRun
    /\ AuxInit

\* The variant's token refresh and gateway client on such a session.
NextRefresh ==
    \/ Tick
    \/ PkceLogout
    \/ PkceGetAccessToken
    \/ PkceRefresh
    \/ PkceRefreshResponse
    \/ PkceRefreshRejected
    \/ PkceInvoke
    \/ PkceInvokeResponse
    \/ PkceInvokeRefreshed
    \/ PkceInvokeRefreshRejected

SpecRefresh == InitRefresh /\ [][NextRefresh]_vars

\* invokeGateway alone on such a session, the network answering every
\* request an invocation sends.
NextInvoke ==
    \/ Tick
    \/ PkceInvoke
    \/ PkceInvokeResponse
    \/ PkceInvokeRefreshed
    \/ PkceInvokeRefreshRejected

SpecInvoke ==
    /\ InitRefresh
    /\ [][NextInvoke]_vars
    /\ WF_vars(PkceInvokeResponse)
    /\ WF_vars(PkceInvokeRefreshed \/ PkceInvokeRefreshRejected)

(***************************************************************************)
(* The Callback component (components/Callback.jsx): mounted on /callback, *)
(* its effect calls cyberarkAuth.handleCallback() and shows the outcome.   *)
(***************************************************************************)
MaxMounts == 2           \* times the component is mounted in a behaviour

\* The component's state after its handleCallback settled with `outcome`
\* (setStatus / setError), and whether it schedules the redirect to '/'.
viewStatus(outcome) ==
    IF outcome = Pending THEN "exchanging" ELSE IF outcome = Ok THEN "success" ELSE "error"
viewError(outcome) == IF outcome \in {Pending, Ok} THEN Null ELSE outcome
\* (a variant that schedules the redirect whatever the outcome)
viewSchedulesRedirect_always(outcome) == outcome # Pending
viewSchedulesRedirect(outcome) == outcome = Ok

\* The component after `outcome`; its counters are history: mounts counts
\* the mounts, calls the invocations of cyberarkAuth.handleCallback(); timer
\* says that the redirect is scheduled and has not fired.
viewAfter(v, outcome) ==
    [v EXCEPT !.status = viewStatus(outcome),
              !.error = viewError(outcome),
              !.timer = viewSchedulesRedirect(outcome)]

InitView ==
    /\ now = 0
    /\ localStorage = [k \in LocalKeys |-> Null]
    /\ sessionStorage = [k \in SessionKeys |-> Null]
    /\ href = AppUrl
    /\ inflight = EmptyBag
    /\ lastEvent = SyncEvent("init", FALSE)
    /\ grantedBy = NoGrant
    /\ toolResult = JUndefined
    /\ toolReturn = NotRun
    /\ AuxInit

\* The application calls login() and the browser leaves for the provider.
ViewLogin ==
    /\ view.status = "unmounted"
    /\ Login

\* The provider redirects back to /callback: the component mounts, its
\* effect runs once and calls cyberarkAuth.handleCallback(), which runs up
\* to its first await or throws.
ViewMount ==
    /\ view.status = "unmounted"
    /\ view.mounts < MaxMounts
    /\ inflight = EmptyBag
    /\ \E q \in Queries :
        LET outcome == callbackCheck(q, sessionStorage)
            mounted == [view EXCEPT !.mounts = @ + 1, !.calls = @ + 1]
        IN  /\ inflight' = IF outcome = Pending
                           THEN inflight (+) SetToBag({CallbackCall("fetch", q)})
                           ELSE inflight
            /\ view' = viewAfter(mounted, outcome)
            /\ lastEvent' = Event("handleCallback", "call", outcome, q, NoResp, Null,
                                  outcome = Pending, FALSE)
            /\ UNCHANGED <<now, localStorage, sessionStorage, href, grantedBy, toolVars,
                           gwVars, app>>

\* The token exchange answers: cyberarkAuth.handleCallback() runs to its
\* end and the component's try / catch sets the status.
ViewExchangeResponse ==
    /\ view.status = "exchanging"
    /\ \E c \in Suspended("handleCallback", "fetch") :
        \E resp \in TokenResponses :
            /\ localStorage' = callbackLocal(localStorage, resp, now)
            /\ sessionStorage' = callbackSession(sessionStorage, resp)
            /\ inflight' = Settle(c)
            /\ view' = viewAfter(view, callbackOutcome(resp))
            /\ lastEvent' = Event("handleCallback", "resume", callbackOutcome(resp), c.query,
                                  resp,
                                  IF callbackOutcome(resp) = Ok THEN resp.access_token
                                  ELSE Null,
                                  FALSE, FALSE)
            /\ grantedBy' = IF callbackOutcome(resp) = Ok THEN c.query.state ELSE grantedBy
            /\ UNCHANGED <<now, href, toolVars, gwVars, app>>

\* The token exchange fails without a usable response.
ViewExchangeRejected ==
    /\ view.status = "exchanging"
    /\ \E c \in Suspended("handleCallback", "fetch") :
        \E outcome \in {FetchFailed, JsonSyntaxError} :
            /\ inflight' = Settle(c)
            /\ view' = viewAfter(view, outcome)
            /\ lastEvent' = Event("handleCallback", "resume", outcome, c.query,
                                  IF outcome = FetchFailed THEN NoResp ELSE StatusOnly(200),
                                  Null, FALSE, FALSE)
            /\ UNCHANGED <<now, localStorage, sessionStorage, href, grantedBy, toolVars,
                           gwVars, app>>

\* The scheduled redirect fires: window.location.href = '/'.
ViewRedirect ==
    /\ view.timer
    /\ href' = AppUrl
    /\ view' = [view EXCEPT !.status = "unmounted", !.error = Null, !.timer = FALSE]
    /\ lastEvent' = SyncEvent("redirect", TRUE)
    /\ UNCHANGED <<now, localStorage, sessionStorage, inflight, grantedBy, toolVars, gwVars,
                   app>>

\* The user presses 'Return to Login' on the error view.
ViewReturnToLogin ==
    /\ view.status = "error"
    /\ href' = AppUrl
    /\ view' = [view EXCEPT !.status = "unmounted", !.error = Null, !.timer = FALSE]
    /\ lastEvent' = SyncEvent("returnToLogin", TRUE)
    /\ UNCHANGED <<now, localStorage, sessionStorage, inflight, grantedBy, toolVars, gwVars,
                   app>>

NextView ==
    \/ Tick
    \/ ViewLogin
    \/ ViewMount
    \/ ViewExchangeResponse
    \/ ViewExchangeRejected
    \/ ViewRedirect
    \/ ViewReturnToLogin

SpecView == InitView /\ [][NextView]_vars

(***************************************************************************)
(* The queries of CyberArkAuth (cyberark-auth.js) as calls of their own,   *)
(* interleaved with the operations that change the session.                *)
(***************************************************************************)
\* (a variant that removes a session it finds expired)
queryLocal_evictsExpired(ls, t) ==
    IF Truthy(getAccessToken(ls)) /\ ~isAuthenticated(ls, t) THEN logoutLocal(ls) ELSE ls
\* localStorage after isAuthenticated() or getAccessToken() ran at time t:
\* both call getItem only.
queryLocal(ls, t) == ls

\* true / false as the history records a returned boolean.
BoolString(b) == IF b THEN "true" ELSE "false"

\* cyberarkAuth.isAuthenticated().
IsAuthenticated ==
    /\ localStorage' = queryLocal(localStorage, now)
    /\ lastEvent' = Event("isAuthenticated", "call", Ok, NoQuery, NoResp,
                          BoolString(isAuthenticated(localStorage, now)), FALSE, FALSE)
    /\ UNCHANGED <<now, sessionStorage, href, inflight, grantedBy, auxVars>>

\* cyberarkAuth.getAccessToken().
GetAccessToken ==
    /\ localStorage' = queryLocal(localStorage, now)
    /\ lastEvent' = Event("getAccessToken", "call", Ok, NoQuery, NoResp,
                          getAccessToken(localStorage), FALSE, FALSE)
    /\ UNCHANGED <<now, sessionStorage, href, inflight, grantedBy, auxVars>>

NextQuery ==
    \/ Tick
    \/ Login
    \/ Logout
    \/ HandleCallback
    \/ ExchangeResponse
    \/ ExchangeRejected
    \/ IsAuthenticated
    \/ GetAccessToken

SpecQuery == Init /\ [][NextQuery]_vars

(***************************************************************************)
(* The App component with its ChatInterface (App.jsx, ChatInterface.jsx):  *)
(* the user types a question, picks a mode and submits; handleSubmit runs  *)
(* runCouncil or runDxO through the gateway client.  React renders the     *)
(* state an event handler set before the next event is handled, so the     *)
(* props of ChatInterface are the state of App at every event.             *)
(***************************************************************************)
Questions == {"", " ", "q", " q "}        \* what the textarea can hold
Modes == {"council", "dxo"}

\* String.prototype.trim(), on the white space the textarea can hold.
WhiteSpace == {" ", "\n", "\t"}
RECURSIVE TrimStart(_)
TrimStart(str) ==
    IF str # "" /\ Head(str) \in {Head(w) : w \in WhiteSpace} THEN TrimStart(Tail(str))
    ELSE str
RECURSIVE TrimEnd(_)
TrimEnd(str) ==
    IF str # "" /\ SubSeq(str, Len(str), Len(str)) \in WhiteSpace
    THEN TrimEnd(SubSeq(str, 1, Len(str) - 1))
    ELSE str
Trim(str) == TrimEnd(TrimStart(str))

\* ChatInterface.handleSubmit: whether it calls onSubmit(question).
\* (a variant that forwards while a call is loading)
forwardsSubmit_whileLoading(question, loading) == Truthy(Trim(question))
forwardsSubmit(question, loading) == Truthy(Trim(question)) /\ ~loading

\* A research call suspended at the fetch of callGateway: runCouncil or
\* runDxO, by the mode at the time of the submit, with the bearer token sent.
ResearchOps == {"runCouncil", "runDxO"}
researchOp(mode) == IF mode = "council" THEN "runCouncil" ELSE "runDxO"
ResearchCall(op, token) == [kind |-> op, pc |-> "fetch", query |-> NoQuery, token |-> token]
ResearchCalls == {c \in BagToSet(inflight) : c.kind \in ResearchOps}
ResearchOutstanding == BagCardinality(inflight)

\* The tool results drawn for a research call that the gateway answered: one
\* that is passed through, one whose text parses, one whose text does not.
UiToolResults ==
    {JObj(<<>>),
     JObj(<<Member("content", JArr(<<Member("", TextElement("{\"question\":\"Q\"}"))>>))>>),
     JObj(<<Member("content", JArr(<<Member("", TextElement("not json"))>>))>>)}

\* App.handleSubmit once its research call settled: setResult on a value,
\* setError on an error, and setLoading(false) in the finally.
\* (a variant whose loading flag is cleared on success only)
appSettled_stuckOnError(a, settled) ==
    IF settled.outcome = Ok
    THEN [a EXCEPT !.result = settled.ret, !.loading = FALSE]
    ELSE [a EXCEPT !.error = settled.outcome]
appSettled(a, settled) ==
    IF settled.outcome = Ok
    THEN [a EXCEPT !.result = settled.ret, !.loading = FALSE]
    ELSE [a EXCEPT !.error = settled.outcome, !.loading = FALSE]

\* App.handleSubmit on entry: setLoading(true), setError(null),
\* setResult(null).
appSubmitted(a) == [a EXCEPT !.loading = TRUE, !.error = Null, !.result = JNull]

\* The App on a tab that holds a session or none.
InitUi ==
    /\ now = 0
    /\ localStorage \in {[k \in LocalKeys |-> Null], StoredSession}
    /\ sessionStorage = [k \in SessionKeys |-> Null]
    /\ href = AppUrl
    /\ inflight = EmptyBag
    /\ lastEvent = SyncEvent("init", FALSE)
    /\ grantedBy = NoGrant
    /\ toolResult = JUndefined
    /\ toolReturn = NotRun
    /\ AuxInit

\* The user edits the question (the textarea is disabled while loading).
UiType ==
    /\ ~app.loading
    /\ \E q \in Questions :
        /\ q # app.question
        /\ app' = [app EXCEPT !.question = q]
    /\ lastEvent' = SyncEvent("type", FALSE)
    /\ UNCHANGED <<now, localStorage, sessionStorage, href, inflight, grantedBy,
                   toolVars, gwVars, view>>

\* The user picks the other mode (the mode buttons are disabled while
\* loading).
UiSetMode ==
    /\ ~app.loading
    /\ \E m \in Modes :
        /\ m # app.mode
        /\ app' = [app EXCEPT !.mode = m]
    /\ lastEvent' = SyncEvent("setMode", FALSE)
    /\ UNCHANGED <<now, localStorage, sessionStorage, href, inflight, grantedBy,
                   toolVars, gwVars, view>>

\* The form is submitted (Enter in the textarea, or the button), and
\* ChatInterface.handleSubmit does not forward it.
UiSubmitIgnored ==
    /\ ~forwardsSubmit(app.question, app.loading)
    /\ lastEvent' = SyncEvent("submitIgnored", FALSE)
    /\ UNCHANGED <<now, localStorage, sessionStorage, href, inflight, grantedBy, auxVars>>

\* The form is submitted and forwarded: App.handleSubmit sets loading and
\* calls runCouncil or runDxO, which runs into callGateway: without a token
\* it calls login() and throws, and handleSubmit catches and clears loading;
\* with one it fetches and handleSubmit stays suspended.
UiSubmit ==
    /\ forwardsSubmit(app.question, app.loading)
    /\ LET token == getAccessToken(localStorage)
           outcome == gatewayStart(token)
           op == researchOp(app.mode)
       IN  \E state \in gatewayDraws(outcome) :
            /\ outcome = Pending => CanSuspend
            /\ inflight' = IF outcome = Pending
                           THEN inflight (+) SetToBag({ResearchCall(op, token)})
                           ELSE inflight
            /\ localStorage' = gatewayLocal(localStorage, outcome)
            /\ sessionStorage' = gatewaySession(sessionStorage, outcome, state)
            /\ href' = gatewayHref(href, outcome, state)
            /\ app' = IF outcome = Pending THEN appSubmitted(app)
                      ELSE appSettled(appSubmitted(app), Thrown(outcome, "none"))
            /\ lastEvent' = Event("submit", "call", outcome, NoQuery, NoResp, Null,
                                  outcome = Pending, gatewayLogsIn(outcome))
            /\ grantedBy' = IF gatewayLogsOut(outcome) THEN NoGrant ELSE grantedBy
    /\ UNCHANGED <<now, toolVars, gwVars, view>>

\* How the research call settles once callGateway settled with `outcome`,
\* callTool having returned `result`.
researchSettles(op, outcome, result) ==
    IF outcome # Ok THEN Thrown(outcome, "none")
    ELSE IF op = "runCouncil" THEN runCouncil(result)
    ELSE runDxO(result)

\* The gateway answers the research call: callGateway settles as in
\* GatewayResponse, runCouncil / runDxO unwraps, and handleSubmit runs to
\* its end.
UiResponse ==
    \E c \in ResearchCalls :
        \E status \in GatewayStatuses :
            \E outcome \in gatewayOutcomes(status) :
              \E state \in gatewayDraws(outcome) :
                \E result \in IF outcome = Ok THEN UiToolResults ELSE {JUndefined} :
                    /\ inflight' = Settle(c)
                    /\ localStorage' = gatewayLocal(localStorage, outcome)
                    /\ sessionStorage' = gatewaySession(sessionStorage, outcome, state)
                    /\ href' = gatewayHref(href, outcome, state)
                    /\ app' = appSettled(app, researchSettles(c.kind, outcome, result))
                    /\ lastEvent' = Event("submit", "resume", outcome, NoQuery,
                                          StatusOnly(status), Null, FALSE,
                                          gatewayLogsIn(outcome))
                    /\ grantedBy' = IF gatewayLogsOut(outcome) THEN NoGrant ELSE grantedBy
                    /\ UNCHANGED <<now, toolVars, gwVars, view>>

\* The fetch of the research call rejects: handleSubmit catches.
UiFetchFails ==
    \E c \in ResearchCalls :
        /\ inflight' = Settle(c)
        /\ app' = appSettled(app, Thrown(FetchFailed, "none"))
        /\ lastEvent' = Event("submit", "resume", FetchFailed, NoQuery, NoResp, Null,
                              FALSE, FALSE)
        /\ UNCHANGED <<now, localStorage, sessionStorage, href, grantedBy, toolVars,
                       gwVars, view>>

NextUi ==
    \/ UiType
    \/ UiSetMode
    \/ UiSubmitIgnored
    \/ UiSubmit
    \/ UiResponse
    \/ UiFetchFails

\* Every research call is answered or fails: fetch settles.
SpecUi ==
    /\ InitUi
    /\ [][NextUi]_vars
    /\ WF_vars(UiResponse \/ UiFetchFails)

Next ==
    \/ Tick
    \/ Login
    \/ Logout
    \/ HandleCallback
    \/ ExchangeResponse
    \/ ExchangeRejected
    \/ CallGateway
    \/ GatewayResponse

Spec == Init /\ [][Next]_vars

(***************************************************************************)
(* Properties.                                                             *)
(***************************************************************************)
pendingState == getItem(sessionStorage, "oauth_state")
storedToken == getItem(localStorage, "cyberark_access_token")
storedExpiry == getItem(localStorage, "cyberark_token_expiry")

\* The state login() most recently stored: the state parameter of the
\* authorization URL it assigned to window.location.href (Null before any
\* login()).
lastLoginState == href.state

\* This step is an invocation of handleCallback() (its synchronous part).
CallbackInvoked == lastEvent'.op = "handleCallback" /\ lastEvent'.phase = "call"
\* ... on a URL with a code and no error parameter.
CallbackWithCode ==
    CallbackInvoked /\ Truthy(lastEvent'.query.code) /\ ~Truthy(lastEvent'.query.error)
\* This step sent no token-exchange request.
NoExchangeSent == ~lastEvent'.sent /\ inflight' = inflight

\* C1 (P2, CSRF rejection): handleCallback() on a URL with a code, no error
\* and a state parameter different from the state S that login() stored most
\* recently throws the CSRF error, sends no token exchange and leaves the
\* access token and the expiry as they were.
C1_CsrfRejection ==
    [][(/\ CallbackWithCode
        /\ lastLoginState # Null
        /\ lastEvent'.query.state # Null
        /\ lastEvent'.query.state # lastLoginState)
       => (/\ lastEvent'.outcome = CsrfError
           /\ NoExchangeSent
           /\ localStorage' = localStorage)]_vars

\* A callback carrying s2 was rejected while the pending state was s1.
C1_Witness ==
    /\ lastEvent.op = "handleCallback" /\ lastEvent.phase = "call"
    /\ lastEvent.outcome = CsrfError
    /\ lastEvent.query.state = "s2"
    /\ lastLoginState = "s1" /\ pendingState = "s1"
    /\ storedToken = Null /\ storedExpiry = Null

\* C2: with no pending state stored, handleCallback() on a URL with a code
\* throws the CSRF error whatever the state parameter is, absent included,
\* and sends no token exchange.
C2_NoPendingStateRejects ==
    [][(CallbackWithCode /\ pendingState = Null)
       => (lastEvent'.outcome = CsrfError /\ NoExchangeSent)]_vars

\* C3 (P3, state consumption): once a handleCallback() has settled, with a
\* result or with any error, no pending state and no PKCE verifier is left
\* in sessionStorage.
C3_StateConsumed ==
    (lastEvent.op = "handleCallback" /\ lastEvent.outcome # Pending)
    => (pendingState = Null /\ getItem(sessionStorage, "pkce_verifier") = Null)

\* C4 (P3, replay protection): when handleCallback() has succeeded and is
\* invoked again on the same query string, the second invocation throws the
\* CSRF error, sends no token exchange and leaves token and expiry alone.
C4_ReplayRejected ==
    [][(/\ lastEvent.op = "handleCallback" /\ lastEvent.outcome = Ok
        /\ CallbackInvoked
        /\ lastEvent'.query = lastEvent.query)
       => (/\ lastEvent'.outcome = CsrfError
           /\ NoExchangeSent
           /\ localStorage' = localStorage)]_vars

\* C5 (P4, 401 triggers logout): when callGateway has handled an HTTP 401,
\* the access token and the expiry are gone from localStorage,
\* isAuthenticated() is false and the call threw the session-expired error.
C5_UnauthorizedLogsOut ==
    (lastEvent.op = "callGateway" /\ lastEvent.resp.status = Unauthorized)
    => (/\ lastEvent.outcome = SessionExpiredError
        /\ storedToken = Null
        /\ storedExpiry = Null
        /\ ~isAuthenticated(localStorage, now))

\* A 401 has been handled.
C5_Witness ==
    /\ lastEvent.op = "callGateway" /\ lastEvent.resp.status = Unauthorized
    /\ lastEvent.outcome = SessionExpiredError
    /\ storedToken = Null

\* This step is a step of callGateway (its invocation or its resumption).
GatewayStep == lastEvent'.op = "callGateway"

Expiries ==
    {t + e * MsPerSecond : t \in {k * TickMs : k \in 0..(MaxTime \div TickMs)},
                           e \in ExpiresIn}

\* C7 (P1, expiry invariant): isAuthenticated() is false whenever the stored
\* expiry is absent or is the decimal of a number <= Date.now(), whether or
\* not an access token is stored.  (The stored expiry is always absent,
\* "NaN", or the decimal of one of Expiries.)
C7_ExpiryInvariant ==
    /\ storedExpiry \in {Null, "NaN"} \cup {NumToString(n) : n \in Expiries}
    /\ (storedExpiry = Null \/ \E n \in Expiries : n <= now /\ storedExpiry = NumToString(n))
       => ~isAuthenticated(localStorage, now)

\* A token is stored and its expiry is exactly now.
C7_Witness ==
    /\ storedToken \in Tokens
    /\ now > 0
    /\ storedExpiry = NumToString(now)
    /\ ~isAuthenticated(localStorage, now)

\* This step is a handleCallback() that received a successful response
\* carrying access_token and expires_in, and stored it.
CallbackStored ==
    /\ lastEvent'.op = "handleCallback" /\ lastEvent'.outcome = Ok
    /\ lastEvent'.resp.access_token \in Tokens
    /\ lastEvent'.resp.expires_in \in ExpiresIn

\* Instants from `from` up to, not including, `expiry`.
InstantsBefore(from, expiry) ==
    {t \in {from, from + 1, expiry - 1} \cup {k * TickMs : k \in 0..(MaxTime \div TickMs + 3)} :
        from <= t /\ t < expiry}

\* What such a handleCallback() leaves: the token, expiry = time of storing
\* + expires_in * 1000, the token as its result, and a session that
\* isAuthenticated() accepts at every instant before that expiry.
C8_Stores ==
    CallbackStored =>
        LET resp == lastEvent'.resp
            expiry == now' + resp.expires_in * MsPerSecond
        IN  /\ getItem(localStorage', "cyberark_access_token") = resp.access_token
            /\ getItem(localStorage', "cyberark_token_expiry") = NumToString(expiry)
            /\ lastEvent'.ret = resp.access_token
            /\ \A t \in InstantsBefore(now', expiry) : isAuthenticated(localStorage', t)

LogoutOr401 ==
    \/ lastEvent'.op = "logout"
    \/ lastEvent'.op = "callGateway" /\ lastEvent'.resp.status = Unauthorized
\* This step is the successful end of a handleCallback().
CallbackSucceeded == lastEvent'.op = "handleCallback" /\ lastEvent'.outcome = Ok
\* ... of one that validated the state parameter of the login() in progress,
\* a login() other than the one the stored session came from, and received
\* access_token and expires_in.
CallbackOfPendingLogin ==
    /\ CallbackStored
    /\ lastEvent'.query.state \in StateVals
    /\ lastEvent'.query.state = pendingState
    /\ lastEvent'.query.state # grantedBy
    /\ BagCardinality(inflight) = 1

\* A session stored by a callback that validated the state of a login() and
\* received an access_token stays authenticated through a step that is not
\* `exempt` and ends before the stored expiry.
StaysAuthenticated(exempt) ==
    (/\ grantedBy \in StateVals
     /\ storedToken \in Tokens
     /\ isAuthenticated(localStorage, now)
     /\ ~exempt
     /\ JsLt(now', ParseInt(storedExpiry)))
    => isAuthenticated(localStorage', now')

\* C8, as specified: ... and isAuthenticated() stays true at every later time
\* before that expiry as long as no logout and no 401 intervenes.  (Steps
\* that end a callback other than the only one in flight, of a later login()
\* in progress, are left out: what violates it is a regular second
\* login.)
C8_AuthenticatedUntilExpiry ==
    [][/\ C8_Stores
       /\ StaysAuthenticated(LogoutOr401 \/ (CallbackSucceeded /\ ~CallbackOfPendingLogin))]_vars

\* C8, amended: ... as long as no logout, no 401 and no later successful
\* handleCallback() (which overwrites token and expiry) intervenes.
C8_AuthenticatedUntilExpiryOrOverwrite ==
    [][C8_Stores /\ StaysAuthenticated(LogoutOr401 \/ CallbackSucceeded)]_vars

\* Time has passed since a callback stored T1, and the session is still
\* authenticated.
C8_Witness ==
    /\ lastEvent.op = "tick"
    /\ storedToken = "T1"
    /\ storedExpiry = NumToString(2 * MsPerSecond)
    /\ now > 0
    /\ isAuthenticated(localStorage, now)

\* C9: after a successful handleCallback() (of a callback URL that carried
\* the state of a login(), answered with access_token, refresh_token and
\* expires_in), the browser's storage holds that refresh token.
C9_RefreshTokenStored ==
    (/\ lastEvent.op = "handleCallback" /\ lastEvent.outcome = Ok
     /\ lastEvent.query.state \in StateVals
     /\ lastEvent.resp.access_token \in Tokens
     /\ lastEvent.resp.expires_in \in ExpiresIn
     /\ lastEvent.resp.refresh_token \in RefreshTokens)
    => \/ \E k \in LocalKeys : getItem(localStorage, k) = lastEvent.resp.refresh_token
       \/ \E k \in SessionKeys : getItem(sessionStorage, k) = lastEvent.resp.refresh_token

\* C10: a token response that is not ok makes handleCallback() throw the
\* token-exchange error, and no step of a handleCallback() other than its
\* successful end changes localStorage.
C10_FailedExchangeStoresNothing ==
    [][(lastEvent'.op = "handleCallback")
       => (/\ (lastEvent'.resp.status # 0 /\ ~responseOk(lastEvent'.resp.status))
               => lastEvent'.outcome = TokenExchangeError
           /\ lastEvent'.outcome # Ok => localStorage' = localStorage)]_vars

\* A token exchange failed while a session was stored: the session is kept.
C10_Witness ==
    /\ lastEvent.op = "handleCallback"
    /\ lastEvent.outcome = TokenExchangeError
    /\ lastEvent.resp.status = 500
    /\ storedToken = "T1"
    /\ storedExpiry # Null

\* A gateway call sent with a stored access token is still awaiting its
\* response: a session had been stored before the last step.
SessionWasStored ==
    \E c \in BagToSet(inflight) : c.kind = "gateway" /\ c.token \in Tokens

\* C11: after logout(), from whatever state it was called in, the access
\* token, the refresh token, the expiry and the pending login state are
\* absent from storage and isAuthenticated() is false; logout() sends no
\* request (no fetch is issued and no call becomes suspended).
C11_LogoutClears ==
    [][(lastEvent'.op = "logout")
       => (/\ getItem(localStorage', "cyberark_access_token") = Null
           /\ getItem(localStorage', "cyberark_refresh_token") = Null
           /\ getItem(localStorage', "cyberark_token_expiry") = Null
           /\ getItem(sessionStorage', "oauth_state") = Null
           /\ ~isAuthenticated(localStorage', now')
           /\ ~lastEvent'.sent
           /\ inflight' = inflight)]_vars

\* logout() has run after a session had been stored and used, and after a
\* login() that left its state pending elsewhere in the same tab.
C11_Witness ==
    /\ lastEvent.op = "logout"
    /\ SessionWasStored
    /\ href.state \in StateVals
    /\ storedToken = Null /\ storedExpiry = Null /\ pendingState = Null

\* C12 (P7, idempotent logout): in every reachable state, logout() applied
\* twice leaves the two stores as logout() applied once does, and
\* isAuthenticated() is false after one and after two; a logout() that
\* follows a logout() changes nothing.
C12_LogoutIdempotent ==
    [][/\ LET once == logoutLocal(localStorage)
              twice == logoutLocal(once)
          IN  /\ twice = once
              /\ logoutSession(logoutSession(sessionStorage)) = logoutSession(sessionStorage)
              /\ ~isAuthenticated(once, now)
              /\ ~isAuthenticated(twice, now)
       /\ (lastEvent.op = "logout" /\ lastEvent'.op = "logout")
           => (localStorage' = localStorage /\ sessionStorage' = sessionStorage)
       /\ (lastEvent'.op = "logout")
           => (/\ localStorage' = logoutLocal(localStorage)
               /\ sessionStorage' = logoutSession(sessionStorage))]_vars

\* logout() has run on an authenticated session at a time after its
\* storing, and a further logout() would find nothing left to clear.
C12_Witness ==
    /\ lastEvent.op = "logout"
    /\ now > 0
    /\ SessionWasStored
    /\ logoutLocal(localStorage) = localStorage
    /\ logoutSession(sessionStorage) = sessionStorage
    /\ ~isAuthenticated(localStorage, now)

\* C13: one callGateway sends at most one HTTP request.  Its invocation
\* issues one fetch() exactly when it goes on to await the response, and
\* its resumption, whatever the response (401, another failed status, a
\* JSON-RPC error, a body that is not JSON, success, no response), issues
\* none and leaves one call fewer suspended.
C13_SingleRequest ==
    [][GatewayStep
       => (/\ (lastEvent'.phase = "call")
               => (/\ lastEvent'.sent <=> (lastEvent'.outcome = Pending)
                   /\ BagCardinality(inflight')
                        = BagCardinality(inflight) + (IF lastEvent'.sent THEN 1 ELSE 0))
           /\ (lastEvent'.phase = "resume")
               => (/\ ~lastEvent'.sent
                   /\ lastEvent'.outcome # Pending
                   /\ BagCardinality(inflight') = BagCardinality(inflight) - 1))]_vars

\* The only gateway call in flight was answered 401 and nothing is in
\* flight after it.
C13_Witness ==
    /\ lastEvent.op = "callGateway" /\ lastEvent.phase = "resume"
    /\ lastEvent.resp.status = Unauthorized
    /\ ~lastEvent.sent
    /\ inflight = EmptyBag

\* C14: between any two steps (each step runs from one await to the next),
\* an access token is stored if and only if an expiry is stored.
C14_TokenIffExpiry == (storedToken # Null) <=> (storedExpiry # Null)

\* A callback stored T2 while a gateway call sent with T1 was awaiting its
\* response.
C14_Witness ==
    /\ lastEvent.op = "handleCallback" /\ lastEvent.outcome = Ok
    /\ storedToken = "T2" /\ storedExpiry # Null
    /\ \E c \in BagToSet(inflight) : c.kind = "gateway" /\ c.token = "T1"

\* C15: a handleCallback() invoked on the query string of a callback whose
\* token exchange is still awaited sends no token exchange of its own.
C15_StateConsumedOnce ==
    [][(/\ CallbackInvoked
        /\ lastEvent'.query.state \in StateVals
        /\ \E c \in Suspended("handleCallback", "fetch") : c.query = lastEvent'.query)
       => NoExchangeSent]_vars

C17_LastLoginStateWins ==
    [][(/\ CallbackWithCode
        /\ pendingState # Null
        /\ lastLoginState \in StateVals
        /\ lastEvent'.query.state \in StateVals)
       => IF lastEvent'.query.state = lastLoginState
          THEN lastEvent'.outcome = Pending /\ lastEvent'.sent
          ELSE lastEvent'.outcome = CsrfError /\ NoExchangeSent]_vars

\* login() stored s1 and a callback carrying s1 passed; a later login()
\* stored s2, and a callback carrying s1 has now been rejected.
C17_Witness ==
    /\ lastEvent.op = "handleCallback" /\ lastEvent.phase = "call"
    /\ lastEvent.outcome = CsrfError
    /\ lastEvent.query.state = "s1"
    /\ pendingState = "s2" /\ lastLoginState = "s2"
    /\ \E c \in BagToSet(inflight) : c.kind = "handleCallback" /\ c.query.state = "s1"

\* What a tool result holds, as the specification of the unwrapping reads
\* it: whether content[0] has a text field, that text, and the value it
\* parses to.
HasText(result) ==
    /\ HasKey(result, "content")
    /\ Get(result, "content").t = "arr"
    /\ Len(Get(result, "content").kv) > 0
    /\ HasKey(First(Get(result, "content")), "text")
TextOf(result) == Get(First(Get(result, "content")), "text").s
ToolRan == toolReturn.op \in {"runCouncil", "runDxO"}

\* C18 (tool unwrap, step 2): when content[0].text is present and is not
\* parseable as JSON, runCouncil / runDxO throws the malformed-response
\* error and returns nothing.
C18_UnparseableTextRejects ==
    (ToolRan /\ HasText(toolResult) /\ ~JsonParse(TextOf(toolResult)).ok)
    => toolReturn.outcome = MalformedToolResponseError

\* C19 (tool unwrap, step 3): when content[0].text parses, runCouncil /
\* runDxO returns parsed.output if the parsed payload has an `output` key,
\* whatever its value, and the parsed payload itself otherwise.
C19_OutputKeyUnwrapped ==
    (ToolRan /\ HasText(toolResult) /\ JsonParse(TextOf(toolResult)).ok)
    => LET parsed == JsonParse(TextOf(toolResult)).val
       IN  /\ toolReturn.outcome = Ok
           /\ toolReturn.ret = IF HasKey(parsed, "output") THEN Get(parsed, "output")
                               ELSE parsed

\* C20 (tool unwrap, step 1): runCouncil / runDxO returns the result
\* unchanged, by the fallback, exactly when content is absent or its first
\* element has no text field; whenever a text field is present, the empty
\* string included, it takes the parsing branch.
C20_PassthroughExactlyWithoutText ==
    ToolRan
    => IF HasText(toolResult)
       THEN toolReturn.path = "parse"
       ELSE /\ toolReturn.path = "passthrough"
            /\ toolReturn.outcome = Ok
            /\ toolReturn.ret = toolResult

\* This step settles a call of the gateway client.
GwSettles == Len(gwPending') < Len(gwPending) \/ gwSettled' # gwSettled
\* The data the last response carried, when its body was JSON.
GwData == JsonParse(gwSettled.body).val
GwBodyParsed == responseOk(gwSettled.status) /\ JsonParse(gwSettled.body).ok

\* C21: healthCheck() always resolves.  When listTools() resolved with a
\* result, it resolves to status 'healthy' and the number of tools listed
\* (0 when the result lists none); on every failure of listTools() (no token
\* stored, 401, another failed status, a JSON-RPC error, a body that is not
\* JSON, no response) to status 'error' and the message of that failure; and
\* when the response has no result, to status 'error' with a message.
C21_HealthCheckNeverRejects ==
    (gwSettled.op = "healthCheck")
    => LET result == Get(GwData, "result")
           tools == Get(result, "tools")
       IN  /\ gwSettled.outcome = Ok
           /\ gwSettled.health.status \in {"healthy", "error"}
           /\ IF GwBodyParsed /\ GwData.t = "obj" /\ ~JsTruthy(Get(GwData, "error"))
              THEN IF result.t = "obj"
                   THEN /\ gwSettled.health.status = "healthy"
                        /\ gwSettled.health.tools = IF tools.t = "arr" THEN Len(tools.kv) ELSE 0
                   ELSE gwSettled.health.status = "error" /\ gwSettled.health.error # ""
              ELSE /\ gwSettled.health.status = "error"
                   /\ gwSettled.health.error # ""
                   /\ (gwSettled.id = "" /\ gwSettled.status = 0)
                       => gwSettled.health.error = AuthRequiredMessage
                   /\ (gwSettled.status = Unauthorized)
                       => gwSettled.health.error = SessionExpiredMessage

\* healthCheck() has reported an expired session as an error status.
C21_Witness ==
    /\ gwSettled.op = "healthCheck"
    /\ gwSettled.status = Unauthorized
    /\ gwSettled.outcome = Ok
    /\ gwSettled.health = [status |-> "error", tools |-> 0, error |-> SessionExpiredMessage]

\* C22: when the gateway answers with a failed status other than 401,
\* callGateway throws the gateway HTTP error whose message carries that
\* status and the text of the body, and the step leaves both stores alone.
C22_HttpErrorCarriesStatusAndBody ==
    [][(/\ GwSettles
        /\ gwSettled'.status # 0
        /\ gwSettled'.status # Unauthorized
        /\ ~responseOk(gwSettled'.status))
       => (/\ localStorage' = localStorage
           /\ sessionStorage' = sessionStorage
           /\ LET message == "Gateway error " \o NumToString(gwSettled'.status)
                             \o ": " \o gwSettled'.body
              IN  IF gwSettled'.op = "healthCheck"
                  THEN gwSettled'.health.error = message
                  ELSE /\ gwSettled'.outcome = GatewayHttpError
                       /\ gwSettled'.message = message)]_vars

\* A call was answered 500 with a body, and the stored session is still
\* there.
C22_Witness ==
    /\ gwSettled.op = "callTool"
    /\ gwSettled.status = 500
    /\ gwSettled.outcome = GatewayHttpError
    /\ gwSettled.message = "Gateway error 500: Internal Server Error"
    /\ storedToken = "T1" /\ storedExpiry = "2000"

\* C23, as specified: when the status is a success and the JSON body has an
\* `error` member, listTools / callTool throws the gateway RPC error.
C23_ErrorMemberRejects ==
    (/\ gwSettled.op \in {"listTools", "callTool"}
     /\ GwBodyParsed
     /\ HasKey(GwData, "error"))
    => gwSettled.outcome = GatewayRpcError

\* C23, amended: ... has an `error` member whose value is not null (nor
\* false, 0 or ""): the call throws the gateway RPC error, whose kind
\* differs from the HTTP and the session-expired error, and returns nothing,
\* also when the body has a `result`.  With an `error` member that is null
\* the call resolves as if it were absent.
C23_TruthyErrorMemberRejects ==
    (/\ gwSettled.op \in {"listTools", "callTool"}
     /\ GwBodyParsed
     /\ HasKey(GwData, "error"))
    => IF Get(GwData, "error").t = "null"
       THEN gwSettled.outcome = Ok /\ gwSettled.ret = Get(GwData, "result")
       ELSE /\ gwSettled.outcome = GatewayRpcError
            /\ gwSettled.outcome \notin {GatewayHttpError, SessionExpiredError}
            /\ gwSettled.ret = JUndefined

\* A body with both an error and a result was rejected with the RPC error.
C23_Witness ==
    /\ gwSettled.op = "listTools"
    /\ gwSettled.status = 200
    /\ HasKey(GwData, "error") /\ HasKey(GwData, "result")
    /\ gwSettled.outcome = GatewayRpcError
    /\ gwSettled.message = "Gateway error: {\"code\":1}"

\* C27: the ids of any two requests sent are different.
C27_RequestIdsUnique ==
    \A i, j \in 1..Len(gwSent) : i # j => gwSent[i] # gwSent[j]

C26_OnlyCallbackAuthenticates ==
    [][/\ (\/ /\ localStorage' # localStorage
              /\ \E k \in LocalKeys : getItem(localStorage', k) # Null
                                      /\ getItem(localStorage', k) # getItem(localStorage, k)
           \/ ~isAuthenticated(localStorage, now) /\ isAuthenticated(localStorage', now'))
          => (/\ lastEvent'.op = "handleCallback" /\ lastEvent'.phase = "resume"
              /\ lastEvent'.outcome = Ok
              /\ responseOk(lastEvent'.resp.status)
              /\ \E c \in Suspended("handleCallback", "fetch") : c.query = lastEvent'.query)
       /\ (\E c \in BagToSet(inflight') :
               c.kind = "handleCallback" /\ CopiesIn(c, inflight') > CopiesIn(c, inflight))
          => (/\ CallbackWithCode
              /\ lastEvent'.outcome = Pending
              /\ lastEvent'.query.state = pendingState)]_vars

\* The callback of a login() has just made an unauthenticated tab
\* authenticated.
C26_Witness ==
    /\ lastEvent.op = "handleCallback" /\ lastEvent.phase = "resume"
    /\ lastEvent.outcome = Ok
    /\ lastEvent.query.state \in StateVals
    /\ grantedBy = lastEvent.query.state
    /\ now = 0
    /\ isAuthenticated(localStorage, now)
    /\ inflight = EmptyBag

\* C29: login() stores a state as the pending state, over any earlier one,
\* and assigns to window.location.href the authorization URL whose state
\* parameter is that pending state, with response_type=code and scope
\* 'openid profile email'; it leaves localStorage as it was.
C29_LoginRedirects ==
    [][(lastEvent'.op = "login")
       => (/\ getItem(sessionStorage', "oauth_state") \in StateVals
           /\ lastEvent'.nav
           /\ href'.endpoint = "authEndpoint"
           /\ href'.state = getItem(sessionStorage', "oauth_state")
           /\ href'.response_type = "code"
           /\ href'.scope = "openid profile email"
           /\ localStorage' = localStorage)]_vars

\* login() has replaced the pending state s1, under which a callback is
\* still exchanging its code, by s2, with a session stored.
C29_Witness ==
    /\ lastEvent.op = "login"
    /\ pendingState = "s2" /\ href.state = "s2" /\ href.response_type = "code"
    /\ \E c \in BagToSet(inflight) : c.kind = "handleCallback" /\ c.query.state = "s1"
    /\ storedToken \in Tokens

\* C25: handleCallback() on a URL that carries no code (here: one that
\* carries a state and no error) throws the missing-code error, sends no
\* token exchange and leaves localStorage as it was, in the proxy flow and
\* in the PKCE flow alike.
C25_MissingCodeRejects ==
    [][(/\ CallbackInvoked
        /\ lastEvent'.query.code = Null /\ lastEvent'.query.error = Null
        /\ lastEvent'.query.state \in StateVals)
       => (/\ lastEvent'.outcome = MissingCodeError
           /\ NoExchangeSent
           /\ localStorage' = localStorage)]_vars

\* C30: getAccessToken() returns the stored access token whenever one is
\* stored (here: by the callback of a login()), also once the stored expiry
\* has passed, and null when none is stored.
C30_GetAccessTokenUnchecked ==
    (/\ lastEvent.op = "getAccessToken"
     /\ storedToken = Null \/ (grantedBy \in StateVals /\ storedToken \in Tokens))
    => lastEvent.ret = storedToken

\* C28: the view invokes handleCallback() once per mount, from its effect
\* and from nowhere else; when handleCallback() fails, with whatever error,
\* the view shows the 'error' status with that error, and from there nothing
\* happens until the user acts: no handleCallback(), no login(), no timer;
\* the redirect to '/' is scheduled only by a handleCallback() that
\* succeeded.
C28_NoAutomaticRetry ==
    [][/\ view'.calls = view'.mounts
       /\ (view'.calls # view.calls)
           => (view.status = "unmounted" /\ view'.calls = view.calls + 1)
       /\ (lastEvent'.op = "handleCallback" /\ lastEvent'.outcome \notin {Pending, Ok})
           => (/\ view'.status = "error"
               /\ view'.error = lastEvent'.outcome
               /\ ~view'.timer)
       /\ (view.status = "error")
           => (/\ lastEvent'.op \in {"returnToLogin", "tick"}
               /\ view'.calls = view.calls
               /\ sessionStorage' = sessionStorage
               /\ localStorage' = localStorage
               /\ inflight' = inflight
               /\ ~view.timer /\ ~view'.timer)
       /\ (view'.timer /\ ~view.timer)
           => (lastEvent'.op = "handleCallback" /\ lastEvent'.outcome = Ok)]_vars

\* A callback was rejected as a CSRF attempt on the view's second mount and
\* the view shows the error, having called handleCallback() twice in all.
C28_Witness ==
    /\ view.status = "error"
    /\ view.error = CsrfError
    /\ view.mounts = 2 /\ view.calls = 2
    /\ ~view.timer
    /\ lastEvent.op = "tick"

\* A step in which one of the two queries ran.
QueryRan == lastEvent'.op \in {"isAuthenticated", "getAccessToken"}

\* C31: isAuthenticated() and getAccessToken() are pure queries: whatever
\* the state, a call leaves localStorage (access token, refresh token,
\* expiry) and sessionStorage (pending state) as they were, sends no request
\* and does not navigate; isAuthenticated() answers by the token and the
\* expiry it read, getAccessToken() returns the stored token.
C31_QueriesArePure ==
    [][QueryRan
       => (/\ localStorage' = localStorage
           /\ sessionStorage' = sessionStorage
           /\ inflight' = inflight
           /\ href' = href
           /\ ~lastEvent'.sent /\ ~lastEvent'.nav
           /\ lastEvent'.op = "isAuthenticated"
               => lastEvent'.ret = BoolString(isAuthenticated(localStorage, now))
           /\ lastEvent'.op = "getAccessToken"
               => lastEvent'.ret = getAccessToken(localStorage))]_vars

\* isAuthenticated() found the stored session expired, answered false, and
\* the expired token and its expiry are still stored.
C31_Witness ==
    /\ lastEvent.op = "isAuthenticated"
    /\ lastEvent.ret = "false"
    /\ storedToken \in Tokens
    /\ storedExpiry # Null
    /\ ~JsLt(now, ParseInt(storedExpiry))

\* The refresh token stored, and the three stored fields of the session.
storedRefreshToken == getItem(localStorage, "cyberark_refresh_token")

\* C32: refreshAccessToken() rejects, without sending a request, when no
\* refresh token is stored, and rejects when the token endpoint answers the
\* refresh with a failed status; in both cases localStorage keeps the access
\* token, the refresh token and the expiry it held.
C32_FailedRefreshRejects ==
    [][/\ (/\ lastEvent'.op = "refreshAccessToken" /\ lastEvent'.phase = "call"
           /\ storedRefreshToken = Null)
          => (/\ lastEvent'.outcome \notin {Pending, Ok}
              /\ ~lastEvent'.sent
              /\ localStorage' = localStorage)
       /\ (/\ lastEvent'.op = "refreshAccessToken" /\ lastEvent'.phase = "resume"
           /\ ~responseOk(lastEvent'.resp.status))
          => (/\ lastEvent'.outcome \notin {Pending, Ok}
              /\ localStorage' = localStorage)]_vars

\* This step is a refreshAccessToken() that received an ok response carrying
\* an access token and a lifetime, and stored it.
RefreshSucceeded ==
    /\ lastEvent'.op = "refreshAccessToken" /\ lastEvent'.phase = "resume"
    /\ lastEvent'.outcome = Ok
    /\ responseOk(lastEvent'.resp.status)
    /\ lastEvent'.resp.access_token \in Tokens
    /\ lastEvent'.resp.expires_in \in ExpiresIn

\* Instants from `expiry` on.
InstantsFrom(expiry) ==
    {t \in {expiry, expiry + 1} \cup {k * TickMs : k \in 0..(MaxTime \div TickMs + 3)} :
        expiry <= t}

C38_InvokeTerminates == InvokeOutstanding ~> ~InvokeOutstanding

\* C34: callGateway sends a request only with a valid token: whenever it
\* fetches the gateway (here: on a session stored by the callback of a
\* login(), with an expiry that is the decimal of a number), the stored
\* token is one isAuthenticated() accepts at that time, its expiry later
\* than the clock.
C34_SendsOnlyValidToken ==
    [][(/\ lastEvent'.op = "callGateway" /\ lastEvent'.phase = "call"
        /\ lastEvent'.sent
        /\ grantedBy \in StateVals
        /\ storedExpiry \in {NumToString(n) : n \in Expiries})
       => isAuthenticated(localStorage, now)]_vars

\* This step is a call of the gateway client that settled before any
\* request: in callGateway's head.
GwSettlesUnsent ==
    /\ gwSettled'.op # "none" /\ gwSettled'.id = ""
    /\ gwSettled' # gwSettled \/ href' # href

\* C35: with no access token stored, a call of the gateway client sends no
\* request and fails with the authentication-required error (healthCheck
\* reporting it); every request sent bears the stored token as its bearer
\* token, and no outstanding request is without one.
C35_NoRequestWithoutToken ==
    [][/\ (getAccessToken(localStorage) = Null)
          => (gwSent' = gwSent /\ Len(gwPending') <= Len(gwPending))
       /\ GwSettlesUnsent
          => (/\ getAccessToken(localStorage) = Null
              /\ gwSent' = gwSent /\ gwPending' = gwPending
              /\ IF gwSettled'.op = "healthCheck"
                 THEN gwSettled'.health.error = AuthRequiredMessage
                 ELSE /\ gwSettled'.outcome = AuthRequiredError
                      /\ gwSettled'.message = AuthRequiredMessage)
       /\ (Len(gwSent') > Len(gwSent))
          => (/\ getAccessToken(localStorage) \in Tokens
              /\ gwPending'[Len(gwPending')].token = getAccessToken(localStorage))
       /\ \A i \in 1..Len(gwPending') : gwPending'[i].token \in Tokens]_vars

\* listTools() was called with no token stored: it failed with the
\* authentication-required error, login() has navigated, and no request has
\* been sent.
C35_Witness ==
    /\ gwSettled.op = "listTools" /\ gwSettled.id = ""
    /\ gwSettled.outcome = AuthRequiredError
    /\ gwSent = <<>> /\ gwPending = <<>>
    /\ storedToken = Null
    /\ href # AppUrl

\* C36: a 401 clears only the session whose token was rejected: when the
\* call that receives the 401 was sent with a token other than the one now
\* stored (a callback of a login() having replaced it meanwhile, the new
\* session being valid), the stored token stays and isAuthenticated() stays
\* true.
C36_UnauthorizedSparesNewerSession ==
    [][(/\ lastEvent'.op = "callGateway" /\ lastEvent'.phase = "resume"
        /\ lastEvent'.resp.status = Unauthorized
        /\ grantedBy \in StateVals
        /\ isAuthenticated(localStorage, now)
        /\ \E c \in Suspended("gateway", "fetch") :
              inflight' = Settle(c) /\ c.token # storedToken)
       => (/\ getItem(localStorage', "cyberark_access_token") = storedToken
           /\ isAuthenticated(localStorage', now'))]_vars

\* C37: logout is not undone by a callback in flight: when logout() has just
\* run while a handleCallback() (of a login()) was suspended at its token
\* exchange and the exchange then returns successfully, that callback
\* stores nothing and isAuthenticated() stays false.
C37_LogoutNotUndone ==
    [][(/\ lastEvent.op = "logout"
        /\ lastEvent'.op = "handleCallback" /\ lastEvent'.phase = "resume"
        /\ lastEvent'.outcome = Ok
        /\ lastEvent'.query.state \in StateVals
        /\ lastEvent'.resp.expires_in \in ExpiresIn \ {0})
       => (/\ localStorage' = localStorage
           /\ ~isAuthenticated(localStorage', now'))]_vars

\* C39: loading is set exactly while a research call started by the submit
\* handler is outstanding, and at most one is; a submit while loading is
\* set, or with a blank question, is not forwarded and starts nothing; a
\* forwarded submit sets loading before the call starts; and loading is
\* eventually false again after every submit, whether the call succeeded or
\* failed.
C39_DuplicateSubmitGuard ==
    /\ [](app.loading <=> ResearchOutstanding = 1)
    /\ [](ResearchOutstanding <= 1)
    /\ [][/\ (app.loading \/ Trim(app.question) = "")
             => (/\ ResearchOutstanding' <= ResearchOutstanding
                 /\ ~(lastEvent'.op = "submit" /\ lastEvent'.phase = "call"))
          /\ (lastEvent'.op = "submit" /\ lastEvent'.phase = "call")
             => (/\ ~app.loading /\ Trim(app.question) # ""
                 /\ lastEvent'.sent <=> app'.loading
                 /\ lastEvent'.sent <=> ResearchOutstanding' = 1)
          /\ (lastEvent'.op = "submit" /\ lastEvent'.outcome # Pending)
             => ~app'.loading]_vars
    /\ (app.loading ~> ~app.loading)

\* A submit was ignored while a DxO research call was outstanding.
C39_Witness ==
    /\ lastEvent.op = "submitIgnored"
    /\ app.loading
    /\ Trim(app.question) = "q"
    /\ \E c \in ResearchCalls : c.kind = "runDxO"

====
